---- MODULE Spec2Model ----
(***************************************************************************)
(* A model of cdfmlr/rexec.                                                *)
(*                                                                         *)
(* Part I  (SpecExec): the per-command execution state machine shared by   *)
(*   LocalExecutor, ShellExecutor, ImmediateSshExecutor and                *)
(*   KeepAliveSshExecutor (executor.go): NCallers goroutines call Execute  *)
(*   on one Command value; each atomic step of Execute is one action.      *)
(* Part II (SpecKA): the keep-alive connection manager keepAliveSshClient  *)
(*   (keepalivessh.go): caller goroutines invoke Client() and Close()      *)
(*   while the keepAlive probe loops run in the background.  FairSpecKA    *)
(*   adds the scheduling of the goroutines, for the progress properties.   *)
(* Each specification leaves the state of the other part untouched.        *)
(*                                                                         *)
(* Strings are sequences of one-character strings.  The operating system,  *)
(* the remote host and the ssh / os/exec libraries are the environment:    *)
(* whether a dial, a start or a probe succeeds, and how a program ends,    *)
(* are nondeterministic choices.                                           *)
(***************************************************************************)
EXTENDS Integers, Sequences, FiniteSets, TLC

\* ------------------------------------------------------------------------
\* Bounds
\* ------------------------------------------------------------------------

\* number of goroutines that call Execute on the one Command value
NCallers == 2

\* the programs of the model exit with a code in 0..MaxExit
MaxExit == 2

Callers == 1..NCallers

ExitCodes == 0..MaxExit

\* ------------------------------------------------------------------------
\* Part I.a  Command and its validation (command.go)
\* ------------------------------------------------------------------------

\* WorkdirDangerous: one-character substrings; LF, TAB, CR, BS and BQ name
\* the characters \n, \t, \r, \b and the backquote; SQ and DQ (below) name
\* the single and the double quote.
WorkdirDangerous ==
  << <<"LF">>, <<"TAB">>, <<"CR">>, <<"BS">>, <<" ">>, <<";">>, <<"&">>,
     <<"|">>, <<"<">>, <<">">>, <<"BQ">>, <<"(">>, <<")">>, <<"{">>, <<"}">>,
     <<"[">>, <<"]">>, <<"$">>, <<"~">> >>

EnvDangerous == WorkdirDangerous

\* the fork bomb literal  :(){ :|:& };:
ForkBomb ==
  <<":", "(", ")", "{", " ", ":", "|", ":", "&", " ", "}", ";", ":">>

CommandDangerous == << ForkBomb >>

\* strings.Contains(s, d)
Contains(s, d) ==
  \E k \in 0..(Len(s) - Len(d)) : SubSeq(s, k + 1, k + Len(d)) = d

\* containsDangerous(s, dangerous): the boolean result
containsDangerous(s, dangerous) ==
  \E j \in 1..Len(dangerous) : Contains(s, dangerous[j])

\* error values: e names the error, code is the exit status an exit error
\* carries (0 for every other error)
Err(name) == [e |-> name, code |-> 0]

NoErr == Err("nil")

ExitError(k) == [e |-> "ExitError", code |-> k]

\* mutant of Validate: the env values are not checked
ValidateSkipEnvValue(c) ==
  IF c.Command = <<>> THEN Err("ErrEmptyCommand")
  ELSE IF c.Workdir # <<>> /\ containsDangerous(c.Workdir, WorkdirDangerous)
    THEN Err("ErrContainsDangerous")
  ELSE IF \E kv \in c.Env : containsDangerous(kv[1], EnvDangerous)
    THEN Err("ErrContainsDangerous")
  ELSE IF containsDangerous(c.Command, CommandDangerous)
    THEN Err("ErrContainsDangerous")
  ELSE NoErr

\* Command.Validate: the error it returns (the stdio defaulting it also
\* performs is part of the action ValidateStep)
Validate(c) ==
  IF c.Command = <<>> THEN Err("ErrEmptyCommand")
  ELSE IF c.Workdir # <<>> /\ containsDangerous(c.Workdir, WorkdirDangerous)
    THEN Err("ErrContainsDangerous")
  ELSE IF \E kv \in c.Env : \/ containsDangerous(kv[1], EnvDangerous)
                            \/ containsDangerous(kv[2], EnvDangerous)
    THEN Err("ErrContainsDangerous")
  ELSE IF containsDangerous(c.Command, CommandDangerous)
    THEN Err("ErrContainsDangerous")
  ELSE NoErr

\* cmdSlice = shlex.Split over the characters of the inputs below: blanks
\* separate words, a quote opens a group up to the matching quote, and an
\* unterminated quote is an error.  st is the tokenizer state ("start",
\* "word", "sq", "dq"), n the number of words completed so far.
RECURSIVE shlexRun(_, _, _)
shlexRun(s, st, n) ==
  IF s = <<>>
    THEN CASE st = "start" -> [err |-> FALSE, words |-> n]
           [] st = "word"  -> [err |-> FALSE, words |-> n + 1]
           [] OTHER        -> [err |-> TRUE, words |-> 0]
    ELSE LET ch == Head(s)
             r  == Tail(s)
         IN CASE st = "sq" -> shlexRun(r, IF ch = "SQ" THEN "word" ELSE "sq", n)
              [] st = "dq" -> shlexRun(r, IF ch = "DQ" THEN "word" ELSE "dq", n)
              [] OTHER ->
                   IF ch \in {" ", "TAB", "CR", "LF"}
                     THEN shlexRun(r, "start", IF st = "word" THEN n + 1 ELSE n)
                   ELSE IF ch = "SQ" THEN shlexRun(r, "sq", n)
                   ELSE IF ch = "DQ" THEN shlexRun(r, "dq", n)
                   ELSE shlexRun(r, "word", n)

cmdSlice(s) == shlexRun(s, "start", 0)

\* the Command values the callers pass to Execute
CmdLs == <<"l", "s">>

CmdInputs ==
  { [Command |-> CmdLs, Workdir |-> <<>>, Env |-> {}],
    [Command |-> CmdLs, Workdir |-> <<"/", "t">>, Env |-> {<< <<"K">>, <<"v">> >>}],
    [Command |-> <<>>, Workdir |-> <<>>, Env |-> {}],
    [Command |-> CmdLs, Workdir |-> <<"/", ";">>, Env |-> {}],
    [Command |-> CmdLs, Workdir |-> <<>>, Env |-> {<< <<"K", "$">>, <<"v">> >>}],
    [Command |-> CmdLs, Workdir |-> <<>>, Env |-> {<< <<"K">>, <<"v", "|">> >>}],
    [Command |-> <<"x", " ">> \o ForkBomb, Workdir |-> <<>>, Env |-> {}],
    [Command |-> <<"SQ", "l", "s">>, Workdir |-> <<>>, Env |-> {}],
    [Command |-> <<" ">>, Workdir |-> <<>>, Env |-> {}] }

\* ------------------------------------------------------------------------
\* Part I.b  Execute (executor.go)
\* ------------------------------------------------------------------------

Kinds == {"Local", "Shell", "ImmediateSsh", "KeepAliveSsh"}

ProcKinds == {"Local", "Shell"}

SshKinds == {"ImmediateSsh", "KeepAliveSsh"}

VARIABLES
  cmd,        \* the Command's Command, Workdir and Env fields
  started,    \* Command.started (atomic.Bool)
  Status,     \* Command.Status
  stdio,      \* Command.Stdin/Stdout/Stderr: "nil" or "default"
  kaInit,     \* KeepAliveSshExecutor.ka # nil
  kaConn,     \* the executor's keep-alive client holds a connection
  attempt,    \* who claimed the command: [by |-> caller (0: nobody), kind]
  pc,         \* per caller: the position inside Execute
  call,       \* per caller, while the call is in progress: the executor
              \* called, and whether started was set when Execute was entered
  ctxDone,    \* per caller: the ctx of its call is done
  err,        \* per caller: the err variable, the returned error at the end
  proc,       \* per caller: the process or remote command it started
  procState,  \* per caller: osexec.Cmd.ProcessState (set by proc.Wait)
  wpc,        \* per caller: the goroutine that waits and sends on done
  wres,       \* per caller: the value that goroutine sends
  eff         \* per caller: what the call has done so far (counters)

execVars == <<cmd, started, Status, stdio, kaInit, kaConn, attempt, pc, call,
              ctxDone, err, proc, procState, wpc, wres, eff>>

\* the state of the connection manager of Part II
VARIABLES
  KeepAlive,    \* c.SshClientConfig.KeepAlive
  client,       \* c.client: a handle, or 0 for nil
  mu,           \* c.mu: who holds the lock
  closed,       \* c.closed
  wg,           \* c.wg: the WaitGroup's counter
  stopCh,       \* c.stopCh: channels are numbered as made, 0 is nil
  stopChClosed, \* the channel in c.stopCh has been closed
  conn,         \* per handle: "none" (not dialed yet), "open", "broken"
                \* (the transport has failed), "closed"
  closes,       \* per handle: how many times its Close() was called
  loops,        \* per keepAlive goroutine: its position and locals
  tpc,          \* per thread: the position inside Client() or Close()
  top,          \* per thread: the method it called last
  tres,         \* per thread: what that call returned
  tdid,         \* per thread: the order of its Close() among all Close()
                \* calls, and the handles that call closed
  ncalls,       \* calls made so far
  nclose        \* Close() calls that have taken the lock so far

kaVars == <<KeepAlive, client, mu, closed, wg, stopCh, stopChClosed, conn,
            closes, loops, tpc, top, tres, tdid, ncalls, nclose>>

\* the state of the evaluations of SshKeepAliveConfig.interval (Part III)
VARIABLES
  ivIn,         \* the receiver and the argument: [c, retries]
  ivGot         \* what interval returned for them; -1 before the call

ivVars == <<ivIn, ivGot>>

\* the state of one dialSsh (Part IV)
VARIABLES
  dCfg,         \* config.HostKeyCheck
  dOS,          \* the files, runtime.GOOS and whether there is a home directory
  dpc,          \* "start", "dial", "handshake", "done"
  dhk,          \* what hostKeyCallback returned: [cb, err]
  dnet,         \* the network connections attempted
  dsrv,         \* the host key the server presented, and whether the
                \* credentials are valid
  dres,         \* what dialSsh returned: [kind, wrap, err]
  dAuth,        \* config.Auth: a list of SshAuth
  dMeth,        \* what prepareSshAuthMethods returned: [methods, errs]
  keyFile,      \* the file named by PrivateKeyPath: [exists, data]
  auth,         \* an SshAuth on which Prepare() is called
  authWas,      \* that SshAuth before the last call
  authErr,      \* what the last call returned; "none" before the first
  authCalls     \* the calls of Prepare() made on it

dialVars == <<dCfg, dOS, dpc, dhk, dnet, dsrv, dres, dAuth, dMeth, keyFile,
              auth, authWas, authErr, authCalls>>

\* what the steps of dialSsh leave alone
authVars == <<dAuth, keyFile, auth, authWas, authErr, authCalls>>

\* the state of one call of ExecutorFactory.Executor (Part V)
VARIABLES
  factory,      \* the ExecutorFactory: its four fields
  visit,        \* the order in which the range over the map visits them
  fres          \* what Executor() returned: [executor, err]

factVars == <<factory, visit, fres>>

\* the state of one KeepAliveSshExecutor whose Execute is called by several
\* goroutines, each with a Command of its own (Part VI)
VARIABLES
  eka,          \* e.ka: a manager, or 0 for nil
  mgr,          \* the managers: [made, conn, loop]
  upc,          \* where each goroutine is in Execute
  eclose        \* e.Close(): "no" or "done"

shareVars == <<eka, mgr, upc, eclose>>

\* what the actions of one part leave alone
notExecVars == <<kaVars, ivVars, dialVars, factVars, shareVars>>

notKAVars == <<execVars, ivVars, dialVars, factVars, shareVars>>

notIvVars == <<execVars, kaVars, dialVars, factVars, shareVars>>

notDialVars == <<execVars, kaVars, ivVars, factVars, shareVars>>

notFactVars == <<execVars, kaVars, ivVars, dialVars, shareVars>>

notShareVars == <<execVars, kaVars, ivVars, dialVars, factVars>>

NoEff == [status |-> 0, stdio |-> 0, procs |-> 0, dials |-> 0, conns |-> 0,
          sess |-> 0, sessClosed |-> 0, connClosed |-> 0, kills |-> 0]

NoProc == [st |-> "none", code |-> 0]

NoCall == [kind |-> "Local", late |-> FALSE]

NoAttempt == [by |-> 0, kind |-> "Local"]

Bump(i, f) == eff' = [eff EXCEPT ![i][f] = @ + 1]

Bump2(i, f, g) == eff' = [eff EXCEPT ![i][f] = @ + 1, ![i][g] = @ + 1]

\* how a started program can end: with an exit code, by a signal, or (a
\* remote command) without any exit status
Terminations(k) ==
  [st : {"exited"}, code : ExitCodes] \cup {[st |-> "signaled", code |-> 0]}
    \cup (IF k \in SshKinds THEN {[st |-> "missing", code |-> 0]} ELSE {})

\* os.ProcessState.ExitCode(): -1 when the process was ended by a signal
ExitCode(p) == IF p.st = "exited" THEN p.code ELSE -1

\* the error of osexec.Cmd.Wait()
procWait(p) ==
  IF p.st = "exited" /\ p.code = 0 THEN NoErr ELSE ExitError(ExitCode(p))

\* the error of ssh.Session.Wait(): nil, an *ssh.ExitError (128 + the signal
\* number after a signal; SIGKILL is 9) or an *ssh.ExitMissingError
sessionWait(p) ==
  CASE p.st = "exited" /\ p.code = 0 -> NoErr
    [] p.st = "exited" -> ExitError(p.code)
    [] p.st = "signaled" -> ExitError(128 + 9)
    [] OTHER -> Err("ExitMissingError")

\* mutant of statusFromErr: a missing exit status counts as success
statusFromErrMissingIsZero(e) ==
  CASE e.e = "nil" -> 0
    [] e.e = "ExitError" -> e.code
    [] e.e = "ExitMissingError" -> 0
    [] OTHER -> -1

\* the deferred status switch of the two SSH executors
statusFromErr(e) ==
  CASE e.e = "nil" -> 0
    [] e.e = "ExitError" -> e.code
    [] OTHER -> -1

InitExec ==
  /\ cmd \in CmdInputs
  /\ started = FALSE
  /\ Status = 0
  /\ stdio = "nil"
  /\ kaInit = FALSE
  /\ kaConn = FALSE
  /\ attempt = NoAttempt
  /\ pc = [i \in Callers |-> "idle"]
  /\ call = [i \in Callers |-> NoCall]
  /\ ctxDone = [i \in Callers |-> FALSE]
  /\ err = [i \in Callers |-> NoErr]
  /\ proc = [i \in Callers |-> NoProc]
  /\ procState = [i \in Callers |-> [set |-> FALSE, code |-> 0]]
  /\ wpc = [i \in Callers |-> "none"]
  /\ wres = [i \in Callers |-> NoErr]
  /\ eff = [i \in Callers |-> NoEff]

\* Execute returns e: the call is over
Return(i, e) ==
  /\ pc' = [pc EXCEPT ![i] = "returned"]
  /\ err' = [err EXCEPT ![i] = e]
  /\ call' = [call EXCEPT ![i] = NoCall]

\* Execute goes on at l
Goto(i, l) == pc' = [pc EXCEPT ![i] = l] /\ UNCHANGED call

\* mutant of Call: Execute does not read ctx.Err() at its entry
CallIgnoresDoneContext(i, k, cfgOK, nilCmd, d) ==
  /\ pc[i] = "idle"
  /\ IF i = 1 THEN TRUE ELSE pc[i - 1] # "idle"
  /\ k \in ProcKinds => cfgOK
  /\ kaInit' = (kaInit \/ (k = "KeepAliveSsh" /\ cfgOK))
  /\ ctxDone' = [ctxDone EXCEPT ![i] = d]
  /\ IF ~cfgOK THEN Return(i, Err("ErrBadSshConfig"))
     ELSE IF nilCmd THEN Return(i, Err("ErrNilCommand"))
     ELSE /\ pc' = [pc EXCEPT ![i] = "cas"]
          /\ call' = [call EXCEPT ![i] = [kind |-> k, late |-> started]]
          /\ UNCHANGED err
  /\ UNCHANGED <<notExecVars, cmd, started, Status, stdio, kaConn, attempt, proc,
                 procState, wpc, wres, eff>>

\* A goroutine calls executor.Execute(ctx, cmd) and Execute performs the
\* checks that precede the compare-and-swap:
\*   Local, Shell:  ctx.Err(), cmd == nil
\*   ImmediateSsh:  ctx.Err(), validateSshClientConfig, cmd == nil
\*   KeepAliveSsh:  validateSshClientConfig, e.init(), ctx.Err(), cmd == nil
\* k is the kind of the executor, cfgOK whether its Config is valid, nilCmd
\* whether cmd is nil (else it is the Command), d whether ctx is done when
\* ctx.Err() is read.  Callers are taken in index order.
Call(i, k, cfgOK, nilCmd, d) ==
  /\ pc[i] = "idle"
  /\ IF i = 1 THEN TRUE ELSE pc[i - 1] # "idle"
  /\ k \in ProcKinds => cfgOK
  /\ kaInit' = (kaInit \/ (k = "KeepAliveSsh" /\ cfgOK))
  /\ ctxDone' = [ctxDone EXCEPT ![i] = d]
  /\ IF k = "KeepAliveSsh" /\ ~cfgOK THEN Return(i, Err("ErrBadSshConfig"))
     ELSE IF d THEN Return(i, Err("ErrCtx"))
     ELSE IF ~cfgOK THEN Return(i, Err("ErrBadSshConfig"))
     ELSE IF nilCmd THEN Return(i, Err("ErrNilCommand"))
     ELSE /\ pc' = [pc EXCEPT ![i] = "cas"]
          /\ call' = [call EXCEPT ![i] = [kind |-> k, late |-> started]]
          /\ UNCHANGED err
  /\ UNCHANGED <<notExecVars, cmd, started, Status, stdio, kaConn, attempt, proc,
                 procState, wpc, wres, eff>>

\* The context of a call in progress is cancelled.  Execute reads the
\* context in the entry check and in the select only, so a cancellation
\* before the compare-and-swap is the same as one right after it.
Cancel(i) ==
  /\ pc[i] \notin {"idle", "cas", "returned", "panicked"}
  /\ ~ctxDone[i]
  /\ ctxDone' = [ctxDone EXCEPT ![i] = TRUE]
  /\ UNCHANGED <<notExecVars, cmd, started, Status, stdio, kaInit, kaConn, attempt,
                 pc, call, err, proc, procState, wpc, wres, eff>>

\* mutant of Cas: load and store instead of compare-and-swap, so that a
\* caller that finds the flag set goes on as well
CasNotExclusive(i) ==
  /\ pc[i] = "cas"
  /\ started' = TRUE
  /\ attempt' = [by |-> i, kind |-> call[i].kind]
  /\ Goto(i, "setStatus")
  /\ UNCHANGED <<notExecVars, ctxDone, cmd, Status, stdio, kaInit, kaConn, err,
                 proc, procState, wpc, wres, eff>>

\* mutant of Cas: Status is reset to -1 before the flag is tested
CasAfterStatus(i) ==
  /\ pc[i] = "cas"
  /\ Status' = -1
  /\ Bump(i, "status")
  /\ IF started
       THEN Return(i, Err("ErrStartedCommand")) /\ UNCHANGED <<started, attempt>>
       ELSE /\ started' = TRUE
            /\ attempt' = [by |-> i, kind |-> call[i].kind]
            /\ Goto(i, "validate")
            /\ UNCHANGED err
  /\ UNCHANGED <<notExecVars, ctxDone, cmd, stdio, kaInit, kaConn, proc, procState,
                 wpc, wres>>

\* cmd.started.CompareAndSwap(false, true)
Cas(i) ==
  /\ pc[i] = "cas"
  /\ IF started
       THEN Return(i, Err("ErrStartedCommand")) /\ UNCHANGED <<started, attempt>>
       ELSE /\ started' = TRUE
            /\ attempt' = [by |-> i, kind |-> call[i].kind]
            /\ Goto(i, "setStatus")
            /\ UNCHANGED err
  /\ UNCHANGED <<notExecVars, ctxDone, cmd, Status, stdio, kaInit, kaConn, proc,
                 procState, wpc, wres, eff>>

\* cmd.Status = -1
SetStatus(i) ==
  /\ pc[i] = "setStatus"
  /\ Status' = -1
  /\ Bump(i, "status")
  /\ Goto(i, "validate")
  /\ UNCHANGED <<notExecVars, ctxDone, cmd, started, stdio, kaInit, kaConn,
                 attempt, err, proc, procState, wpc, wres>>

\* mutant of ValidateStep: a command that fails validation is released again
\* (the start flag is cleared) so that it could be fixed and re-run
ValidateStepReleases(i) ==
  /\ pc[i] = "validate"
  /\ stdio' = "default"
  /\ Bump(i, "stdio")
  /\ LET v == Validate(cmd)
     IN IF v # NoErr
          THEN /\ started' = FALSE
               /\ IF call[i].kind \in ProcKinds
                    THEN Return(i, Err("ErrInvalidCommand"))
                    ELSE Goto(i, "deferStatus") /\ err' = [err EXCEPT ![i] = v]
          ELSE /\ UNCHANGED <<err, started>>
               /\ Goto(i, CASE call[i].kind \in ProcKinds -> "start"
                            [] call[i].kind = "ImmediateSsh" -> "dial"
                            [] OTHER -> "acquire")
  /\ UNCHANGED <<notExecVars, ctxDone, cmd, Status, kaInit, kaConn, attempt, proc,
                 procState, wpc, wres>>

\* cmd.Validate() inside Execute: the nil stdio handles are replaced by
\* defaults, then the fields are checked.  On an error Local and Shell return
\* it wrapped in ErrInvalidCommand; the SSH executors return it through the
\* deferred status switch.
ValidateStep(i) ==
  /\ pc[i] = "validate"
  /\ stdio' = "default"
  /\ Bump(i, "stdio")
  /\ LET v == Validate(cmd)
     IN IF v # NoErr
          THEN IF call[i].kind \in ProcKinds
                 THEN Return(i, Err("ErrInvalidCommand"))
                 ELSE Goto(i, "deferStatus") /\ err' = [err EXCEPT ![i] = v]
          ELSE /\ UNCHANGED err
               /\ Goto(i, CASE call[i].kind \in ProcKinds -> "start"
                            [] call[i].kind = "ImmediateSsh" -> "dial"
                            [] OTHER -> "acquire")
  /\ UNCHANGED <<notExecVars, ctxDone, cmd, started, Status, kaInit, kaConn,
                 attempt, proc, procState, wpc, wres>>

\* Local and Shell, from the tokenizing of the command to proc.Start() in
\* runProc.  Local: a cmdSlice error returns ErrParseCommand, and
\* cmdParts[0] of an empty slice panics.  ok is whether the operating system
\* starts the process; if it does, the waiting goroutine is started too.
Start(i, ok) ==
  /\ pc[i] = "start"
  /\ LET sl == cmdSlice(cmd.Command)
     IN IF call[i].kind = "Local" /\ sl.err
          THEN /\ Return(i, Err("ErrParseCommand"))
               /\ UNCHANGED <<proc, wpc, eff>>
        ELSE IF call[i].kind = "Local" /\ sl.words = 0
          THEN /\ Goto(i, "panicked")
               /\ UNCHANGED <<err, proc, wpc, eff>>
        ELSE IF ~ok
          THEN /\ Goto(i, "deferProc")
               /\ err' = [err EXCEPT ![i] = Err("ErrStart")]
               /\ Bump(i, "stdio")
               /\ UNCHANGED <<proc, wpc>>
        ELSE /\ Goto(i, "select")
             /\ proc' = [proc EXCEPT ![i] = [st |-> "running", code |-> 0]]
             /\ wpc' = [wpc EXCEPT ![i] = "wait"]
             /\ Bump2(i, "stdio", "procs")
             /\ UNCHANGED err
  /\ UNCHANGED <<notExecVars, ctxDone, cmd, started, Status, stdio, kaInit, kaConn,
                 attempt, procState, wres>>

\* the program of caller i ends by itself (or is ended by somebody else)
ProcEnds(i, t) ==
  /\ proc[i].st = "running"
  /\ t \in Terminations(attempt.kind)
  /\ proc' = [proc EXCEPT ![i] = t]
  /\ UNCHANGED <<notExecVars, cmd, started, Status, stdio, kaInit, kaConn, attempt,
                 pc, call, ctxDone, err, procState, wpc, wres, eff>>

\* the waiting goroutine: proc.Wait() / session.Wait() returns.  proc.Wait()
\* stores proc.ProcessState.
WaiterWait(i) ==
  /\ wpc[i] = "wait"
  /\ proc[i].st # "running"
  /\ wpc' = [wpc EXCEPT ![i] = "send"]
  /\ IF attempt.kind \in ProcKinds
       THEN /\ procState' = [procState EXCEPT
                               ![i] = [set |-> TRUE, code |-> ExitCode(proc[i])]]
            /\ wres' = [wres EXCEPT ![i] = procWait(proc[i])]
       ELSE /\ wres' = [wres EXCEPT ![i] = sessionWait(proc[i])]
            /\ UNCHANGED procState
  /\ UNCHANGED <<notExecVars, cmd, started, Status, stdio, kaInit, kaConn, attempt,
                 pc, call, ctxDone, err, proc, eff>>

\* select, case err := <-done: the rendezvous with the waiting goroutine
SelectDone(i) ==
  /\ pc[i] = "select"
  /\ wpc[i] = "send"
  /\ wpc' = [wpc EXCEPT ![i] = "end"]
  /\ err' = [err EXCEPT ![i] = wres[i]]
  /\ Goto(i, IF call[i].kind \in ProcKinds THEN "deferProc" ELSE "closeSession")
  /\ UNCHANGED <<notExecVars, ctxDone, cmd, started, Status, stdio, kaInit, kaConn,
                 attempt, proc, procState, wres, eff>>

\* mutant of SelectCtx: the cancellation branch writes the status itself
SelectCtxWritesStatus(i, took) ==
  /\ pc[i] = "select"
  /\ ctxDone[i]
  /\ proc' = [proc EXCEPT ![i] = IF @.st = "running" /\ took
                                   THEN [st |-> "signaled", code |-> 0] ELSE @]
  /\ Bump2(i, "kills", "status")
  /\ Status' = -1
  /\ err' = [err EXCEPT ![i] = Err("ErrCtx")]
  /\ Goto(i, IF call[i].kind \in ProcKinds THEN "deferProc" ELSE "closeSession")
  /\ UNCHANGED <<notExecVars, ctxDone, cmd, started, stdio, kaInit, kaConn,
                 attempt, procState, wpc, wres>>

\* select, case <-ctx.Done(): proc.Process.Kill() or
\* session.Signal(ssh.SIGKILL), and err = ctx.Err().  The error of the kill
\* is dropped: the kill ends a program that is still running, or (took is
\* FALSE) it has no effect; nobody waits for either.
SelectCtx(i, took) ==
  /\ pc[i] = "select"
  /\ ctxDone[i]
  /\ proc' = [proc EXCEPT ![i] = IF @.st = "running" /\ took
                                   THEN [st |-> "signaled", code |-> 0] ELSE @]
  /\ Bump(i, "kills")
  /\ err' = [err EXCEPT ![i] = Err("ErrCtx")]
  /\ Goto(i, IF call[i].kind \in ProcKinds THEN "deferProc" ELSE "closeSession")
  /\ UNCHANGED <<notExecVars, ctxDone, cmd, started, Status, stdio, kaInit, kaConn,
                 attempt, procState, wpc, wres>>

\* Local and Shell, the deferred function and the return: the status is the
\* exit code of proc.ProcessState if that is set, else -1.  The read of
\* ProcessState is not synchronized with the waiting goroutine that sets it.
DeferProc(i) ==
  /\ pc[i] = "deferProc"
  /\ Status' = IF procState[i].set THEN procState[i].code ELSE -1
  /\ Bump(i, "status")
  /\ Return(i, err[i])
  /\ UNCHANGED <<notExecVars, ctxDone, cmd, started, stdio, kaInit, kaConn,
                 attempt, proc, procState, wpc, wres>>

\* ImmediateSsh: dialSsh(e.Config).  ok is whether the dial succeeds; a
\* connection that was dialed is closed by the deferred client.Close().
Dial(i, ok) ==
  /\ pc[i] = "dial"
  /\ IF ok
       THEN Bump2(i, "dials", "conns") /\ Goto(i, "newSession") /\ UNCHANGED err
       ELSE /\ Bump(i, "dials")
            /\ Goto(i, "deferStatus")
            /\ err' = [err EXCEPT ![i] = Err("ErrDial")]
  /\ UNCHANGED <<notExecVars, ctxDone, cmd, started, Status, stdio, kaInit, kaConn,
                 attempt, proc, procState, wpc, wres>>

\* KeepAliveSsh: e.ka.Client().  The client returns the connection it holds,
\* or dials one (ok is whether that dial succeeds); Part II models the client
\* itself.
Acquire(i, ok) ==
  /\ pc[i] = "acquire"
  /\ IF kaConn
       THEN /\ Goto(i, "newSession")
            /\ Bump(i, "conns")
            /\ UNCHANGED <<err, kaConn>>
       ELSE /\ kaConn' = ok
            /\ IF ok
                 THEN /\ Bump2(i, "dials", "conns")
                      /\ Goto(i, "newSession")
                      /\ UNCHANGED err
                 ELSE /\ Bump(i, "dials")
                      /\ Goto(i, "deferStatus")
                      /\ err' = [err EXCEPT ![i] = Err("ErrDial")]
  /\ UNCHANGED <<notExecVars, ctxDone, cmd, started, Status, stdio, kaInit,
                 attempt, proc, procState, wpc, wres>>

\* mutant of NewSession: when the session cannot be created, ImmediateSsh
\* returns without closing the connection it dialed
NewSessionLeaksConn(i, ok) ==
  /\ pc[i] = "newSession"
  /\ IF ok
       THEN /\ Goto(i, "sessStart")
            /\ Bump2(i, "sess", "stdio")
            /\ UNCHANGED err
       ELSE /\ Goto(i, "deferStatus")
            /\ err' = [err EXCEPT ![i] = Err("ErrNewSession")]
            /\ UNCHANGED eff
  /\ UNCHANGED <<notExecVars, ctxDone, cmd, started, Status, stdio, kaInit, kaConn,
                 attempt, proc, procState, wpc, wres>>

\* execWithSshClient: client.NewSession() (ok is whether it succeeds) and the
\* wiring of the three streams
NewSession(i, ok) ==
  /\ pc[i] = "newSession"
  /\ IF ok
       THEN /\ Goto(i, "sessStart")
            /\ Bump2(i, "sess", "stdio")
            /\ UNCHANGED err
       ELSE /\ Goto(i, IF call[i].kind = "ImmediateSsh" THEN "closeConn"
                                                        ELSE "deferStatus")
            /\ err' = [err EXCEPT ![i] = Err("ErrNewSession")]
            /\ UNCHANGED eff
  /\ UNCHANGED <<notExecVars, ctxDone, cmd, started, Status, stdio, kaInit, kaConn,
                 attempt, proc, procState, wpc, wres>>

\* runSshSession: session.Start(cmdStr) (ok is whether it succeeds) and the
\* start of the waiting goroutine
SessStart(i, ok) ==
  /\ pc[i] = "sessStart"
  /\ IF ok
       THEN /\ Goto(i, "select")
            /\ proc' = [proc EXCEPT ![i] = [st |-> "running", code |-> 0]]
            /\ wpc' = [wpc EXCEPT ![i] = "wait"]
            /\ Bump(i, "procs")
            /\ UNCHANGED err
       ELSE /\ Goto(i, "closeSession")
            /\ err' = [err EXCEPT ![i] = Err("ErrStart")]
            /\ UNCHANGED <<proc, wpc, eff>>
  /\ UNCHANGED <<notExecVars, ctxDone, cmd, started, Status, stdio, kaInit, kaConn,
                 attempt, procState, wres>>

\* mutant of CloseSession: the connection is closed after the session,
\* whatever the executor
CloseSessionClosesConn(i) ==
  /\ pc[i] = "closeSession"
  /\ Bump(i, "sessClosed")
  /\ Goto(i, "closeConn")
  /\ UNCHANGED <<notExecVars, ctxDone, cmd, started, Status, stdio, kaInit, kaConn,
                 attempt, err, proc, procState, wpc, wres>>

\* mutant of CloseSession: session.Close() waits until the remote command
\* has ended
CloseSessionWaits(i) ==
  /\ pc[i] = "closeSession"
  /\ proc[i].st # "running"
  /\ Bump(i, "sessClosed")
  /\ Goto(i, IF call[i].kind = "ImmediateSsh" THEN "closeConn" ELSE "deferStatus")
  /\ UNCHANGED <<notExecVars, ctxDone, cmd, started, Status, stdio, kaInit, kaConn,
                 attempt, err, proc, procState, wpc, wres>>

\* execWithSshClient, the deferred session.Close()
CloseSession(i) ==
  /\ pc[i] = "closeSession"
  /\ Bump(i, "sessClosed")
  /\ Goto(i, IF call[i].kind = "ImmediateSsh" THEN "closeConn" ELSE "deferStatus")
  /\ UNCHANGED <<notExecVars, ctxDone, cmd, started, Status, stdio, kaInit, kaConn,
                 attempt, err, proc, procState, wpc, wres>>

\* ImmediateSsh, the deferred client.Close()
CloseConn(i) ==
  /\ pc[i] = "closeConn"
  /\ Bump(i, "connClosed")
  /\ Goto(i, "deferStatus")
  /\ UNCHANGED <<notExecVars, ctxDone, cmd, started, Status, stdio, kaInit, kaConn,
                 attempt, err, proc, procState, wpc, wres>>

\* the SSH executors, the deferred function that sets the status from err,
\* and the return
DeferStatus(i) ==
  /\ pc[i] = "deferStatus"
  /\ Status' = statusFromErr(err[i])
  /\ Bump(i, "status")
  /\ Return(i, err[i])
  /\ UNCHANGED <<notExecVars, ctxDone, cmd, started, stdio, kaInit, kaConn,
                 attempt, proc, procState, wpc, wres>>

NextExec ==
  \E i \in Callers :
    \/ \E k \in Kinds, cfgOK \in BOOLEAN, nilCmd \in BOOLEAN, d \in BOOLEAN :
         Call(i, k, cfgOK, nilCmd, d)
    \/ Cancel(i)
    \/ Cas(i)
    \/ SetStatus(i)
    \/ ValidateStep(i)
    \/ \E ok \in BOOLEAN : Start(i, ok)
    \/ \E t \in Terminations(attempt.kind) : ProcEnds(i, t)
    \/ WaiterWait(i)
    \/ SelectDone(i)
    \/ \E took \in BOOLEAN : SelectCtx(i, took)
    \/ DeferProc(i)
    \/ \E ok \in BOOLEAN : Dial(i, ok)
    \/ \E ok \in BOOLEAN : Acquire(i, ok)
    \/ \E ok \in BOOLEAN : NewSession(i, ok)
    \/ \E ok \in BOOLEAN : SessStart(i, ok)
    \/ CloseSession(i)
    \/ CloseConn(i)
    \/ DeferStatus(i)

\* the steps of the goroutine that runs Execute for caller i
ExecStep(i) ==
  \/ Cas(i)
  \/ SetStatus(i)
  \/ ValidateStep(i)
  \/ \E ok \in BOOLEAN : Start(i, ok)
  \/ SelectDone(i)
  \/ \E took \in BOOLEAN : SelectCtx(i, took)
  \/ DeferProc(i)
  \/ \E ok \in BOOLEAN : Dial(i, ok)
  \/ \E ok \in BOOLEAN : Acquire(i, ok)
  \/ \E ok \in BOOLEAN : NewSession(i, ok)
  \/ \E ok \in BOOLEAN : SessStart(i, ok)
  \/ CloseSession(i)
  \/ CloseConn(i)
  \/ DeferStatus(i)

\* ------------------------------------------------------------------------
\* Part II.a  keepAliveSshClient (keepalivessh.go)
\* ------------------------------------------------------------------------

\* number of goroutines that call Client() and Close() on the one manager
NThreads == 2

\* number of connections the ssh server accepts (dials that succeed)
MaxDials == 2

\* number of Client() and Close() calls made in all
MaxCalls == 3

\* a probe loop takes no further tick once it has failed this many times
MaxRetries == 2

KAThreads == 1..NThreads

\* the *ssh.Client values dialSsh returns; 0 is nil
Handles == 1..MaxDials

\* a keepAlive goroutine is named after the handle whose dial started it
Loops == 1..MaxDials

\* time.Duration is an int64 count of nanoseconds and its arithmetic wraps
\* around.  The model keeps that shape at a smaller scale: a Duration has
\* DurationBits bits and a second is Second ticks.
DurationBits == 7

Second == 4

RECURSIVE Pow2(_)
Pow2(n) == IF n = 0 THEN 1 ELSE 2 * Pow2(n - 1)

\* the value a two's complement Duration holds after an operation whose
\* exact result is x
Wrap(x) ==
  LET m == Pow2(DurationBits)
      h == Pow2(DurationBits - 1)
  IN  ((x + h) % m) - h

\* MinSshKeepAliveInterval = 1 * time.Second
MinSshKeepAliveInterval == 1 * Second

\* SshClientConfig.KeepAlive values the manager is built with; with the
\* last one the sum of interval does not fit a Duration after a retry or two
KeepAliveConfigs ==
  { [IntervalSeconds |-> 3, IncrementSeconds |-> 1],
    [IntervalSeconds |-> -3, IncrementSeconds |-> 0],
    [IntervalSeconds |-> 3, IncrementSeconds |-> 13] }

\* SshKeepAliveConfig.interval(retries), a Duration
interval(c, retries) ==
  LET base == IF c.IntervalSeconds < 0 THEN 0 ELSE c.IntervalSeconds
      r == IF retries < 0 THEN 0 ELSE retries
      i0 == Wrap(base * Second)
      i == Wrap(i0 + Wrap(Wrap(c.IncrementSeconds * Second) * r))
  IN  IF i < MinSshKeepAliveInterval THEN MinSshKeepAliveInterval ELSE i

\* values of mu
Free == <<"free", 0>>

ByThread(t) == <<"thread", t>>

ByLoop(l) == <<"loop", l>>

ErrAlreadyClosed == Err("ErrAlreadyClosed")

\* the error of a dial that fails, and of a Close() on a failed transport
ErrDial == Err("ErrDial")

ErrConnClose == Err("ErrConnClose")

\* failed: a dialSsh of its redial has failed
NoLoop == [pc |-> "none", retries |-> 0, iv |-> 0, ch |-> 0, h |-> 0,
           failed |-> FALSE]

NoRes == [err |-> NoErr, h |-> 0]

NoDid == [ord |-> 0, closed |-> 0]

\* a receive from channel ch can proceed: ch has been closed.  A channel is
\* replaced in c.stopCh only after it was closed (stopKeepAlive).
IsClosed(ch) == ch # 0 /\ (ch < stopCh \/ (ch = stopCh /\ stopChClosed))

\* the server accepts another connection
CanDial == \E h \in Handles : conn[h] = "none"

\* the handle a successful dialSsh returns
NewHandle == CHOOSE h \in Handles :
               conn[h] = "none" /\ \A g \in Handles : g < h => conn[g] # "none"

\* what ssh.Client.Close() can return on handle h: nil on a healthy
\* connection; on one whose transport has failed (the library has closed
\* the socket itself) or that was closed before, nil or an error
CloseResults(h) ==
  CASE h = 0 -> {NoErr}
    [] h # 0 /\ conn[h] = "open" -> {NoErr}
    [] h # 0 /\ conn[h] = "broken" -> {NoErr, ErrConnClose}
    [] OTHER -> {ErrConnClose}

InitKA ==
  /\ KeepAlive \in KeepAliveConfigs
  /\ client = 0
  /\ mu = Free
  /\ closed = FALSE
  /\ wg = 0
  /\ stopCh = 0
  /\ stopChClosed = FALSE
  /\ conn = [h \in Handles |-> "none"]
  /\ closes = [h \in Handles |-> 0]
  /\ loops = [l \in Loops |-> NoLoop]
  /\ tpc = [t \in KAThreads |-> "idle"]
  /\ top = [t \in KAThreads |-> "none"]
  /\ tres = [t \in KAThreads |-> NoRes]
  /\ tdid = [t \in KAThreads |-> NoDid]
  /\ ncalls = 0
  /\ nclose = 0

\* mutant of KAReturn: the lock is kept after the call has returned
KAReturnKeepsLock(t, r) ==
  /\ tpc' = [tpc EXCEPT ![t] = "returned"]
  /\ tres' = [tres EXCEPT ![t] = r]
  /\ mu' = ByThread(t)

\* the call of thread t returns r, releasing the lock (deferred Unlock)
KAReturn(t, r) ==
  /\ tpc' = [tpc EXCEPT ![t] = "returned"]
  /\ tres' = [tres EXCEPT ![t] = r]
  /\ mu' = Free

\* thread t calls method m (Client or Close) and reaches c.mu.Lock().
\* Threads make their first calls in index order.
Invoke(t, m) ==
  /\ tpc[t] \in {"idle", "returned"}
  /\ ncalls < MaxCalls
  /\ IF t = 1 THEN TRUE ELSE top[t - 1] # "none"
  /\ ncalls' = ncalls + 1
  /\ tpc' = [tpc EXCEPT ![t] = "lock"]
  /\ top' = [top EXCEPT ![t] = m]
  /\ tres' = [tres EXCEPT ![t] = NoRes]
  /\ tdid' = [tdid EXCEPT ![t] = NoDid]
  /\ UNCHANGED <<notKAVars, KeepAlive, client, mu, closed, wg, stopCh,
                 stopChClosed, conn, closes, loops, nclose>>

\* Client() that dials whether or not the manager holds a client
ClientLockAlwaysDials(t) ==
  /\ tpc[t] = "lock" /\ top[t] = "Client"
  /\ mu = Free
  /\ mu' = ByThread(t)
  /\ tpc' = [tpc EXCEPT ![t] = "dial"]
  /\ UNCHANGED <<notKAVars, KeepAlive, client, closed, wg, stopCh,
                 stopChClosed, conn, closes, loops, top, tres, tdid, ncalls,
                 nclose>>

\* Client(): takes the lock; an existing client is returned at once
ClientLock(t) ==
  /\ tpc[t] = "lock" /\ top[t] = "Client"
  /\ mu = Free
  /\ IF client # 0
     THEN KAReturn(t, [err |-> NoErr, h |-> client])
     ELSE /\ mu' = ByThread(t)
          /\ tpc' = [tpc EXCEPT ![t] = "dial"]
          /\ UNCHANGED tres
  /\ UNCHANGED <<notKAVars, KeepAlive, client, closed, wg, stopCh,
                 stopChClosed, conn, closes, loops, top, tdid, ncalls,
                 nclose>>

\* Client() that returns no error when its dial fails
ClientDialSwallowsError(t, ok) ==
  /\ tpc[t] = "dial"
  /\ ok => CanDial
  /\ IF ok
     THEN /\ conn' = [conn EXCEPT ![NewHandle] = "open"]
          /\ client' = NewHandle
          /\ tpc' = [tpc EXCEPT ![t] = "stop"]
          /\ UNCHANGED <<mu, tres>>
     ELSE /\ KAReturn(t, [err |-> NoErr, h |-> 0])
          /\ UNCHANGED <<conn, client>>
  /\ UNCHANGED <<notKAVars, KeepAlive, closed, wg, stopCh, stopChClosed,
                 closes, loops, top, tdid, ncalls, nclose>>

\* Client(): dialSsh under the lock; on success the handle is stored
ClientDial(t, ok) ==
  /\ tpc[t] = "dial"
  /\ ok => CanDial
  /\ IF ok
     THEN /\ conn' = [conn EXCEPT ![NewHandle] = "open"]
          /\ client' = NewHandle
          /\ tpc' = [tpc EXCEPT ![t] = "stop"]
          /\ UNCHANGED <<mu, tres>>
     ELSE /\ KAReturn(t, [err |-> ErrDial, h |-> 0])
          /\ UNCHANGED <<conn, client>>
  /\ UNCHANGED <<notKAVars, KeepAlive, closed, wg, stopCh, stopChClosed,
                 closes, loops, top, tdid, ncalls, nclose>>

\* Close() that takes the lock and returns without marking the manager closed
CloseLockNoMark(t) ==
  /\ tpc[t] = "lock" /\ top[t] = "Close"
  /\ mu = Free
  /\ nclose' = nclose + 1
  /\ tdid' = [tdid EXCEPT ![t].ord = nclose + 1]
  /\ IF closed
     THEN KAReturn(t, [err |-> ErrAlreadyClosed, h |-> 0])
     ELSE /\ mu' = ByThread(t)
          /\ tpc' = [tpc EXCEPT ![t] = "stop"]
          /\ UNCHANGED tres
  /\ UNCHANGED <<notKAVars, KeepAlive, client, closed, wg, stopCh,
                 stopChClosed, conn, closes, loops, top, ncalls>>

\* Close(): takes the lock; a closed manager answers ErrAlreadyClosed, else
\* it is marked closed
CloseLock(t) ==
  /\ tpc[t] = "lock" /\ top[t] = "Close"
  /\ mu = Free
  /\ nclose' = nclose + 1
  /\ tdid' = [tdid EXCEPT ![t].ord = nclose + 1]
  /\ IF closed
     THEN /\ KAReturn(t, [err |-> ErrAlreadyClosed, h |-> 0])
          /\ UNCHANGED closed
     ELSE /\ closed' = TRUE
          /\ mu' = ByThread(t)
          /\ tpc' = [tpc EXCEPT ![t] = "stop"]
          /\ UNCHANGED tres
  /\ UNCHANGED <<notKAVars, KeepAlive, client, wg, stopCh, stopChClosed, conn,
                 closes, loops, top, ncalls>>

\* stopKeepAlive, up to wg.Wait(): makes the channel if there is none and
\* closes it unless it is closed already
stopKeepAlive(t) ==
  /\ tpc[t] = "stop"
  /\ LET ch == IF stopCh = 0 THEN 1 ELSE stopCh
     IN  /\ stopCh' = ch
         /\ stopChClosed' = TRUE
         /\ tpc' = [tpc EXCEPT ![t] =
                      IF stopCh # 0 /\ stopChClosed THEN "made" ELSE "wait"]
  /\ UNCHANGED <<notKAVars, KeepAlive, client, mu, closed, wg, conn, closes,
                 loops, top, tres, tdid, ncalls, nclose>>

\* stopKeepAlive can go on: wg.Wait() has returned, or was not called
Waited(t) == tpc[t] = "made" \/ (tpc[t] = "wait" /\ wg = 0)

\* mutant of ClientFinish: stopKeepAlive does not wait for the goroutine
ClientFinishNoWait(t) ==
  /\ top[t] = "Client"
  /\ tpc[t] \in {"made", "wait"}
  /\ stopCh' = stopCh + 1
  /\ stopChClosed' = FALSE
  /\ wg' = wg + 1
  /\ loops' = [loops EXCEPT ![client] = [NoLoop EXCEPT !.pc = "start"]]
  /\ KAReturn(t, [err |-> NoErr, h |-> client])
  /\ UNCHANGED <<notKAVars, KeepAlive, client, closed, conn, closes, top, tdid,
                 ncalls, nclose>>

\* Client(): the rest of stopKeepAlive (a fresh channel), then wg.Add(1),
\* go c.keepAlive(), return c.client
ClientFinish(t) ==
  /\ top[t] = "Client"
  /\ Waited(t)
  /\ stopCh' = stopCh + 1
  /\ stopChClosed' = FALSE
  /\ wg' = wg + 1
  /\ loops' = [loops EXCEPT ![client] = [NoLoop EXCEPT !.pc = "start"]]
  /\ KAReturn(t, [err |-> NoErr, h |-> client])
  /\ UNCHANGED <<notKAVars, KeepAlive, client, closed, conn, closes, top, tdid,
                 ncalls, nclose>>

\* Close(): the rest of stopKeepAlive (a fresh channel), then the client,
\* if any, is closed and forgotten; the result of closing it is returned
CloseFinish(t, e) ==
  /\ top[t] = "Close"
  /\ Waited(t)
  /\ e \in CloseResults(client)
  /\ stopCh' = stopCh + 1
  /\ stopChClosed' = FALSE
  /\ IF client # 0
     THEN /\ conn' = [conn EXCEPT ![client] = "closed"]
          /\ closes' = [closes EXCEPT ![client] = @ + 1]
          /\ tdid' = [tdid EXCEPT ![t].closed = @ + 1]
     ELSE UNCHANGED <<conn, closes, tdid>>
  /\ client' = 0
  /\ KAReturn(t, [err |-> e, h |-> 0])
  /\ UNCHANGED <<notKAVars, KeepAlive, closed, wg, loops, top, ncalls, nclose>>

\* keepAlive: the goroutine starts, makes its ticker and enters the select
LoopStart(l) ==
  /\ loops[l].pc = "start"
  /\ loops' = [loops EXCEPT ![l] = [pc |-> "select", retries |-> 0,
                                    iv |-> interval(KeepAlive, 0),
                                    ch |-> stopCh, h |-> 0,
                                    failed |-> FALSE]]
  /\ UNCHANGED <<notKAVars, KeepAlive, client, mu, closed, wg, stopCh,
                 stopChClosed, conn, closes, tpc, top, tres, tdid, ncalls,
                 nclose>>

\* keepAlive: the select receives from the stop channel; the goroutine
\* returns (deferred wg.Done)
LoopStop(l) ==
  /\ loops[l].pc = "select"
  /\ IsClosed(loops[l].ch)
  /\ loops' = [loops EXCEPT ![l].pc = "exited"]
  /\ wg' = wg - 1
  /\ UNCHANGED <<notKAVars, KeepAlive, client, mu, closed, stopCh,
                 stopChClosed, conn, closes, tpc, top, tres, tdid, ncalls,
                 nclose>>

\* mutant of LoopTick: keepAlive does not redial when there is no client
LoopTickNeverRedials(l) ==
  /\ loops[l].pc = "select"
  /\ loops[l].retries < MaxRetries
  /\ loops' = [loops EXCEPT ![l].pc = "tka"]
  /\ UNCHANGED <<notKAVars, KeepAlive, client, mu, closed, wg, stopCh,
                 stopChClosed, conn, closes, tpc, top, tres, tdid, ncalls,
                 nclose>>

\* keepAlive: the select receives a tick; c.client is read without the lock
LoopTick(l) ==
  /\ loops[l].pc = "select"
  /\ loops[l].retries < MaxRetries
  /\ loops' = [loops EXCEPT ![l].pc = IF client = 0 THEN "redial" ELSE "tka"]
  /\ UNCHANGED <<notKAVars, KeepAlive, client, mu, closed, wg, stopCh,
                 stopChClosed, conn, closes, tpc, top, tres, tdid, ncalls,
                 nclose>>

\* redial: dialSsh, without the lock; a failure is logged only
LoopRedialDial(l, ok) ==
  /\ loops[l].pc = "redial"
  /\ ok => CanDial
  /\ IF ok
     THEN /\ conn' = [conn EXCEPT ![NewHandle] = "open"]
          /\ loops' = [loops EXCEPT ![l].pc = "store", ![l].h = NewHandle]
     ELSE /\ loops' = [loops EXCEPT ![l].pc = "tka", ![l].failed = TRUE]
          /\ UNCHANGED conn
  /\ UNCHANGED <<notKAVars, KeepAlive, client, mu, closed, wg, stopCh,
                 stopChClosed, closes, tpc, top, tres, tdid, ncalls, nclose>>

\* redial: Lock, c.client = client, Unlock
LoopRedialStore(l) ==
  /\ loops[l].pc = "store"
  /\ mu = Free
  /\ client' = loops[l].h
  /\ loops' = [loops EXCEPT ![l].pc = "tka", ![l].h = 0]
  /\ UNCHANGED <<notKAVars, KeepAlive, mu, closed, wg, stopCh, stopChClosed,
                 conn, closes, tpc, top, tres, tdid, ncalls, nclose>>

\* tryKeepAlive: takes the lock; with no client it returns at once
LoopTkaLock(l) ==
  /\ loops[l].pc = "tka"
  /\ mu = Free
  /\ IF client = 0
     THEN /\ loops' = [loops EXCEPT ![l].pc = "post"]
          /\ UNCHANGED mu
     ELSE /\ loops' = [loops EXCEPT ![l].pc = "probe"]
          /\ mu' = ByLoop(l)
  /\ UNCHANGED <<notKAVars, KeepAlive, client, closed, wg, stopCh,
                 stopChClosed, conn, closes, tpc, top, tres, tdid, ncalls,
                 nclose>>

\* tryKeepAlive that closes the client after a failed probe but keeps it
LoopProbeKeepsDeadClient(l) ==
  /\ loops[l].pc = "probe"
  /\ IF conn[client] = "open"
     THEN UNCHANGED <<conn, closes>>
     ELSE /\ conn' = [conn EXCEPT ![client] = "closed"]
          /\ closes' = [closes EXCEPT ![client] = @ + 1]
  /\ mu' = Free
  /\ loops' = [loops EXCEPT ![l].pc = "post"]
  /\ UNCHANGED <<notKAVars, KeepAlive, client, closed, wg, stopCh,
                 stopChClosed, tpc, top, tres, tdid, ncalls, nclose>>

\* tryKeepAlive: SendRequest under the lock; when it fails the client is
\* closed and forgotten; Unlock
LoopProbe(l) ==
  /\ loops[l].pc = "probe"
  /\ IF conn[client] = "open"
     THEN UNCHANGED <<client, conn, closes>>
     ELSE /\ conn' = [conn EXCEPT ![client] = "closed"]
          /\ closes' = [closes EXCEPT ![client] = @ + 1]
          /\ client' = 0
  /\ mu' = Free
  /\ loops' = [loops EXCEPT ![l].pc = "post"]
  /\ UNCHANGED <<notKAVars, KeepAlive, closed, wg, stopCh, stopChClosed, tpc,
                 top, tres, tdid, ncalls, nclose>>

\* keepAlive: after tryKeepAlive c.client is read without the lock, retries
\* and the ticker are adjusted, and the select is entered again
LoopPost(l) ==
  /\ loops[l].pc = "post"
  /\ LET r == loops[l].retries
     IN  loops' = [loops EXCEPT
           ![l].pc = "select",
           ![l].ch = stopCh,
           ![l].retries = IF client = 0 THEN r + 1 ELSE 0,
           ![l].iv = IF client = 0 THEN interval(KeepAlive, r + 1)
                     ELSE IF r # 0 THEN interval(KeepAlive, 0) ELSE @]
  /\ UNCHANGED <<notKAVars, KeepAlive, client, mu, closed, wg, stopCh,
                 stopChClosed, conn, closes, tpc, top, tres, tdid, ncalls,
                 nclose>>

\* thread t is in KeepAliveSshExecutor.Execute and e.ka.Client() has
\* returned it a client
HasClient(t) ==
  tpc[t] = "returned" /\ top[t] = "Client" /\ tres[t].err = NoErr

\* execWithSshClient: client.NewSession() on the client that Client()
\* returned; it fails on a connection that is not open, and may fail on
\* one that is.  With a session the command is started and runs.
SessionNew(t, ok) ==
  /\ HasClient(t)
  /\ ok => conn[tres[t].h] = "open"
  /\ top' = [top EXCEPT ![t] = "Execute"]
  /\ tpc' = [tpc EXCEPT ![t] = IF ok THEN "run" ELSE "returned"]
  /\ tres' = [tres EXCEPT ![t].err = IF ok THEN NoErr ELSE ErrDial]
  /\ UNCHANGED <<notKAVars, KeepAlive, client, mu, closed, wg, stopCh,
                 stopChClosed, conn, closes, loops, tdid, ncalls, nclose>>

\* runSshSession returns (the command has ended or the context is done),
\* the session is closed and Execute returns
SessionEnd(t) ==
  /\ tpc[t] = "run"
  /\ tpc' = [tpc EXCEPT ![t] = "returned"]
  /\ UNCHANGED <<notKAVars, KeepAlive, client, mu, closed, wg, stopCh,
                 stopChClosed, conn, closes, loops, top, tres, tdid, ncalls,
                 nclose>>

\* the environment: the transport of an open connection fails
Break(h) ==
  /\ conn[h] = "open"
  /\ conn' = [conn EXCEPT ![h] = "broken"]
  /\ UNCHANGED <<notKAVars, KeepAlive, client, mu, closed, wg, stopCh,
                 stopChClosed, closes, loops, tpc, top, tres, tdid, ncalls,
                 nclose>>

\* a step of a thread inside Client() or Close()
ThreadStep(t) ==
  \/ ClientLock(t)
  \/ \E ok \in BOOLEAN : ClientDial(t, ok)
  \/ CloseLock(t)
  \/ stopKeepAlive(t)
  \/ ClientFinish(t)
  \/ \E e \in {NoErr, ErrConnClose} : CloseFinish(t, e)

\* a step of a keepAlive goroutine
LoopStep(l) ==
  \/ LoopStart(l)
  \/ LoopStop(l)
  \/ LoopTick(l)
  \/ \E ok \in BOOLEAN : LoopRedialDial(l, ok)
  \/ LoopRedialStore(l)
  \/ LoopTkaLock(l)
  \/ LoopProbe(l)
  \/ LoopPost(l)

NextKA ==
  \/ \E t \in KAThreads, m \in {"Client", "Close"} : Invoke(t, m)
  \/ \E t \in KAThreads : ThreadStep(t)
  \/ \E l \in Loops : LoopStep(l)
  \/ \E h \in Handles : Break(h)

\* the manager with the sessions of KeepAliveSshExecutor.Execute on the
\* clients it hands out
NextSession ==
  \/ \E t \in KAThreads, m \in {"Client", "Close"} : Invoke(t, m)
  \/ \E t \in KAThreads : ThreadStep(t)
  \/ \E l \in Loops : LoopStep(l)
  \/ \E h \in Handles : Break(h)
  \/ \E t \in KAThreads, ok \in BOOLEAN : SessionNew(t, ok)
  \/ \E t \in KAThreads : SessionEnd(t)

\* ------------------------------------------------------------------------
\* Part III.a  SshKeepAliveConfig.interval (sshconfig.go)
\* ------------------------------------------------------------------------

\* IntervalSeconds, IncrementSeconds and retries range over -MaxInput ..
\* MaxInput (retries from -1); the larger ones overflow a Duration
MaxInput == 16

IvInputs == -MaxInput..MaxInput

IvRetries == -1..MaxInput

InitInterval ==
  /\ ivIn \in [c : [IntervalSeconds : IvInputs, IncrementSeconds : IvInputs],
               retries : IvRetries]
  /\ ivGot = -1

\* c.interval(retries) is called
CallInterval ==
  /\ ivGot = -1
  /\ ivGot' = interval(ivIn.c, ivIn.retries)
  /\ UNCHANGED <<notIvVars, ivIn>>

NextInterval == CallInterval

\* ------------------------------------------------------------------------
\* Part IV.a  dialSsh and hostKeyCallback (ssh.go)
\* ------------------------------------------------------------------------

\* A string is a sequence of characters.  Of the characters of a
\* FixedHostKey the model keeps three: " " is white space, "A" is one
\* public key in authorized_keys form (its type and its base64 blob), "x"
\* is a word that is no key.  FixedHostKey ranges over the strings of at
\* most MaxKeyLen characters and two more with a word and a key.
MaxKeyLen == 2

KeyChars == {" ", "A", "x"}

\* the host keys a server may present; no file and no string has "B"
HostKeys == {"A", "B"}

FixedHostKeys ==
  UNION {[1..n -> KeyChars] : n \in 0..MaxKeyLen}
    \cup {<<"x", " ", "A">>, <<"A", " ", "x">>}

\* the files named by KnownHostsPath in the runs, and the lists of them
KnownHostsPaths == {<<>>, <<"kh1">>, <<"kh1", "kh2">>}

\* the four default locations, in the order of defaultKnownHostsPaths
SystemKnownHosts == <<"/etc/ssh/ssh_known_hosts", "/etc/ssh/ssh_known_hosts2">>

UserKnownHosts == <<"~/.ssh/known_hosts", "~/.ssh/known_hosts2">>

Range(s) == {s[i] : i \in 1..Len(s)}

AllPaths == {"kh1", "kh2"} \cup Range(SystemKnownHosts) \cup Range(UserKnownHosts)

\* a file is missing, or is no known_hosts file (knownhosts.New fails to
\* parse it), or lists key "A" for the host that is dialed
FileStates == {"missing", "malformed", "listsA"}

FileKeys(f) == IF f = "listsA" THEN {"A"} ELSE {}

\* the errors of the preparation, by what their text contains
NoKeyFound == "ssh: no key found"

NoSuchFile == "no such file or directory"

IllegalBase64 == "illegal base64 data"

PrepWrap == "failed to prepare SSH host key callback"

\* *SshHostKeyCheckConfig: the nil pointer, or a struct
HostKeyCheckConfigs ==
  [nil : {FALSE}, FixedHostKey : FixedHostKeys,
   KnownHostsPath : KnownHostsPaths, InsecureIgnore : BOOLEAN]
    \cup {[nil |-> TRUE, FixedHostKey |-> <<>>, KnownHostsPath |-> <<>>,
           InsecureIgnore |-> FALSE]}

\* the zero value of SshHostKeyCheckConfig
ZeroConfig ==
  [nil |-> FALSE, FixedHostKey |-> <<>>, KnownHostsPath |-> <<>>,
   InsecureIgnore |-> FALSE]

\* strings.TrimSpace
RECURSIVE TrimLeft(_)
TrimLeft(s) ==
  IF s # <<>> /\ Head(s) = " " THEN TrimLeft(Tail(s)) ELSE s

RECURSIVE TrimRight(_)
TrimRight(s) ==
  IF s # <<>> /\ s[Len(s)] = " "
  THEN TrimRight(SubSeq(s, 1, Len(s) - 1))
  ELSE s

TrimSpace(s) == TrimRight(TrimLeft(s))

\* the characters of s before its first white space
RECURSIVE FirstWord(_)
FirstWord(s) ==
  IF s = <<>> THEN <<>>
  ELSE IF Head(s) = " " THEN <<>>
  ELSE <<Head(s)>> \o FirstWord(Tail(s))

\* s after its first word and the white space that follows it
AfterWord(s) == TrimLeft(SubSeq(s, Len(FirstWord(s)) + 1, Len(s)))

IsKey(w) == Len(w) = 1 /\ w[1] \in HostKeys

\* ssh.ParseAuthorizedKey on one line: the line is trimmed; it is a key
\* followed by nothing or by a comment, or one word of options and then a
\* key; anything else, the empty line included, is "no key found".
ParseAuthorizedKey(in) ==
  LET line == TrimSpace(in)
  IN  IF IsKey(FirstWord(line))
      THEN [key |-> line[1], err |-> "nil"]
      ELSE IF IsKey(FirstWord(AfterWord(line)))
      THEN [key |-> AfterWord(line)[1], err |-> "nil"]
      ELSE [key |-> "none", err |-> NoKeyFound]

\* An ssh.HostKeyCallback is the kind of verifier and the keys it accepts.
NoCallback == [kind |-> "none", keys |-> {}]

FixedHostKey(k) == [kind |-> "fixed", keys |-> {k}]

InsecureIgnoreHostKey == [kind |-> "insecure", keys |-> {}]

denyAllHostKeys == [kind |-> "deny", keys |-> {}]

\* the error of callback cb for a server that presents key k; "nil" accepts
Verify(cb, k) ==
  IF cb.kind = "insecure" THEN "nil"
  ELSE IF cb.kind = "deny" THEN "ssh: all host keys are denied"
  ELSE IF k \in cb.keys THEN "nil"
  ELSE IF cb.kind = "fixed" THEN "ssh: host key mismatch"
  ELSE "knownhosts: key is unknown"

\* knownhosts.New(paths...): the files are read in order, the first that
\* cannot be opened or parsed is the error
RECURSIVE KnownHostsErr(_)
KnownHostsErr(paths) ==
  IF paths = <<>> THEN "nil"
  ELSE IF dOS.fs[Head(paths)] = "missing" THEN NoSuchFile
  ELSE IF dOS.fs[Head(paths)] = "malformed" THEN IllegalBase64
  ELSE KnownHostsErr(Tail(paths))

knownhostsNew(paths) ==
  IF KnownHostsErr(paths) # "nil"
  THEN [cb |-> NoCallback, err |-> KnownHostsErr(paths)]
  ELSE [cb |-> [kind |-> "known",
                keys |-> UNION {FileKeys(dOS.fs[p]) : p \in Range(paths)}],
        err |-> "nil"]

Exists(file) == dOS.fs[file] # "missing"

defaultKnownHostsPaths ==
  LET sys == IF dOS.goos # "windows" THEN SystemKnownHosts ELSE <<>>
      usr == IF dOS.home THEN UserKnownHosts ELSE <<>>
  IN  SelectSeq(sys \o usr, Exists)

defaultKnownHostsCallbackDegrades ==
  IF defaultKnownHostsPaths = <<>>
  THEN [cb |-> InsecureIgnoreHostKey, err |-> "nil"]
  ELSE knownhostsNew(defaultKnownHostsPaths)

defaultKnownHostsCallback ==
  IF defaultKnownHostsPaths = <<>>
  THEN [cb |-> denyAllHostKeys, err |-> "nil"]
  ELSE knownhostsNew(defaultKnownHostsPaths)

hostKeyCallbackInsecureFirst(config) ==
  IF config.nil THEN defaultKnownHostsCallback
  ELSE IF config.InsecureIgnore
  THEN [cb |-> InsecureIgnoreHostKey, err |-> "nil"]
  ELSE IF config.FixedHostKey # <<>>
  THEN LET p == ParseAuthorizedKey(TrimSpace(config.FixedHostKey))
       IN  IF p.err # "nil" THEN [cb |-> NoCallback, err |-> p.err]
           ELSE [cb |-> FixedHostKey(p.key), err |-> "nil"]
  ELSE IF Len(config.KnownHostsPath) # 0
  THEN knownhostsNew(config.KnownHostsPath)
  ELSE defaultKnownHostsCallback

hostKeyCallbackBadKeyFallsThrough(config) ==
  IF config.nil THEN defaultKnownHostsCallback
  ELSE IF config.FixedHostKey # <<>>
          /\ ParseAuthorizedKey(TrimSpace(config.FixedHostKey)).err = "nil"
  THEN [cb |-> FixedHostKey(
                 ParseAuthorizedKey(TrimSpace(config.FixedHostKey)).key),
        err |-> "nil"]
  ELSE IF Len(config.KnownHostsPath) # 0
  THEN knownhostsNew(config.KnownHostsPath)
  ELSE IF config.InsecureIgnore
  THEN [cb |-> InsecureIgnoreHostKey, err |-> "nil"]
  ELSE defaultKnownHostsCallback

hostKeyCallback(config) ==
  IF config.nil THEN defaultKnownHostsCallback
  ELSE IF config.FixedHostKey # <<>>
  THEN LET p == ParseAuthorizedKey(TrimSpace(config.FixedHostKey))
       IN  IF p.err # "nil" THEN [cb |-> NoCallback, err |-> p.err]
           ELSE [cb |-> FixedHostKey(p.key), err |-> "nil"]
  ELSE IF Len(config.KnownHostsPath) # 0
  THEN knownhostsNew(config.KnownHostsPath)
  ELSE IF config.InsecureIgnore
  THEN [cb |-> InsecureIgnoreHostKey, err |-> "nil"]
  ELSE defaultKnownHostsCallback

\* SshAuth.  The strings of its fields keep three characters: " " is white
\* space, "k" the text of one private key that parses, "x" text that does
\* not.  authMethod is "nil", "custom" (set by NewSshAuth), or the method
\* that Prepare built.
AuthStrings == {<<>>, <<" ">>, <<"k">>, <<" ", "k">>, <<"x">>}

SshAuths ==
  [Password : AuthStrings, PrivateKey : AuthStrings,
   PrivateKeyPath : {<<>>, <<"f">>}, authMethod : {"nil", "custom"}]

\* &SshAuth{Password: "k"}
PasswordAuth ==
  [Password |-> <<"k">>, PrivateKey |-> <<>>, PrivateKeyPath |-> <<>>,
   authMethod |-> "nil"]

\* the file at PrivateKeyPath: missing, or with data
KeyFiles ==
  {[exists |-> FALSE, data |-> <<>>]}
    \cup [exists : {TRUE}, data : AuthStrings]

ErrSshAuthMutex == "exactly one of Password, PrivateKey, PrivateKeyPath must be set"

\* the last part of Prepare: a.PrivateKey, if set, is trimmed and parsed
PreparePrivateKey(a) ==
  IF a.PrivateKey # <<>>
  THEN IF TrimSpace(a.PrivateKey) = <<>>
       THEN [a |-> [a EXCEPT !.PrivateKey = <<>>],
             err |-> "private key is empty"]
       ELSE IF TrimSpace(a.PrivateKey) # <<"k">>
       THEN [a |-> [a EXCEPT !.PrivateKey = TrimSpace(a.PrivateKey)],
             err |-> "unable to parse private key"]
       ELSE [a |-> [a EXCEPT !.PrivateKey = <<"k">>,
                             !.authMethod = "publickey"],
             err |-> "nil"]
  ELSE [a |-> a, err |-> ErrSshAuthMutex]

\* mutant of Prepare: a Password excludes a PrivateKey only
PrepareAllowsPasswordWithPath(a) ==
  IF a.authMethod # "nil"
  THEN IF a.Password # <<>> \/ a.PrivateKey # <<>> \/ a.PrivateKeyPath # <<>>
       THEN [a |-> a, err |-> ErrSshAuthMutex]
       ELSE [a |-> a, err |-> "nil"]
  ELSE IF a.Password # <<>>
  THEN IF a.PrivateKey # <<>>
       THEN [a |-> a, err |-> ErrSshAuthMutex]
       ELSE IF TrimSpace(a.Password) = <<>>
       THEN [a |-> [a EXCEPT !.Password = <<>>], err |-> "password is empty"]
       ELSE [a |-> [a EXCEPT !.Password = TrimSpace(a.Password),
                             !.authMethod = "password"],
             err |-> "nil"]
  ELSE IF a.PrivateKey # <<>> /\ a.PrivateKeyPath # <<>>
  THEN [a |-> a, err |-> ErrSshAuthMutex]
  ELSE IF a.PrivateKeyPath # <<>>
  THEN IF ~keyFile.exists
       THEN [a |-> a, err |-> "unable to read private key"]
       ELSE IF keyFile.data = <<>>
       THEN [a |-> a, err |-> "private key is empty"]
       ELSE PreparePrivateKey([a EXCEPT !.PrivateKey = keyFile.data])
  ELSE PreparePrivateKey(a)

\* (a *SshAuth) Prepare(): the error, and a as the call leaves it
Prepare(a) ==
  IF a.authMethod # "nil"
  THEN IF a.Password # <<>> \/ a.PrivateKey # <<>> \/ a.PrivateKeyPath # <<>>
       THEN [a |-> a, err |-> ErrSshAuthMutex]
       ELSE [a |-> a, err |-> "nil"]
  ELSE IF a.Password # <<>>
  THEN IF a.PrivateKey # <<>> \/ a.PrivateKeyPath # <<>>
       THEN [a |-> a, err |-> ErrSshAuthMutex]
       ELSE IF TrimSpace(a.Password) = <<>>
       THEN [a |-> [a EXCEPT !.Password = <<>>], err |-> "password is empty"]
       ELSE [a |-> [a EXCEPT !.Password = TrimSpace(a.Password),
                             !.authMethod = "password"],
             err |-> "nil"]
  ELSE IF a.PrivateKey # <<>> /\ a.PrivateKeyPath # <<>>
  THEN [a |-> a, err |-> ErrSshAuthMutex]
  ELSE IF a.PrivateKeyPath # <<>>
  THEN IF ~keyFile.exists
       THEN [a |-> a, err |-> "unable to read private key"]
       ELSE IF keyFile.data = <<>>
       THEN [a |-> a, err |-> "private key is empty"]
       ELSE PreparePrivateKey([a EXCEPT !.PrivateKey = keyFile.data])
  ELSE PreparePrivateKey(a)

\* prepareSshAuthMethods: Prepare() is called on a copy of each entry; the
\* entries that fail give the errors, the others their methods, in order
RECURSIVE prepareSshAuthMethods(_)
prepareSshAuthMethods(auths) ==
  IF auths = <<>> THEN [methods |-> <<>>, errs |-> <<>>]
  ELSE LET r == Prepare(Head(auths))
           rest == prepareSshAuthMethods(Tail(auths))
       IN  IF r.err # "nil"
           THEN [methods |-> rest.methods, errs |-> <<r.err>> \o rest.errs]
           ELSE [methods |-> <<r.a.authMethod>> \o rest.methods,
                 errs |-> rest.errs]

NoMeth == [methods |-> <<>>, errs |-> <<>>]

NoHk == [cb |-> NoCallback, err |-> "nil"]

NoSrv == [key |-> "none", authOK |-> FALSE]

NoDialRes == [kind |-> "none", wrap |-> "", err |-> "nil"]

\* nothing has been done yet
DialStart ==
  /\ dpc = "start"
  /\ dhk = NoHk
  /\ dnet = 0
  /\ dsrv = NoSrv
  /\ dres = NoDialRes
  /\ dMeth = NoMeth
  /\ authErr = "none"
  /\ authCalls = 0

\* the known_hosts2 files are absent in the runs
InitDial ==
  /\ dCfg \in HostKeyCheckConfigs
  /\ dOS \in {o \in [fs : [AllPaths -> FileStates],
                     goos : {"linux", "windows"}, home : BOOLEAN] :
                /\ o.fs[SystemKnownHosts[2]] = "missing"
                /\ o.fs[UserKnownHosts[2]] = "missing"}
  /\ DialStart
  /\ dAuth = <<PasswordAuth>>
  /\ keyFile = [exists |-> FALSE, data |-> <<>>]
  /\ auth = PasswordAuth
  /\ authWas = PasswordAuth

\* the dials and the Prepare() calls of Part IV.c: the host key policy is
\* accept-all or a fixed key that does not parse, the SshAuth and the key
\* file vary, and config.Auth has that SshAuth alone, or before or after one
\* with a password
InitAuth ==
  /\ dCfg \in {[ZeroConfig EXCEPT !.InsecureIgnore = TRUE],
               [ZeroConfig EXCEPT !.FixedHostKey = <<"x">>]}
  /\ dOS = [fs |-> [p \in AllPaths |-> "missing"], goos |-> "linux",
            home |-> TRUE]
  /\ DialStart
  /\ keyFile \in KeyFiles
  /\ auth \in SshAuths
  /\ authWas = auth
  /\ dAuth \in {<<>>, <<auth>>, <<auth, PasswordAuth>>, <<PasswordAuth, auth>>}

DialResolveConnectsAnyway ==
  /\ dpc = "start"
  /\ dMeth' = prepareSshAuthMethods(dAuth)
  /\ dhk' = hostKeyCallback(dCfg)
  /\ dpc' = "dial"
  /\ UNCHANGED <<notDialVars, authVars, dCfg, dOS, dnet, dsrv, dres>>

\* mutant of DialResolve: an SshAuth that cannot be prepared fails the dial
DialResolveRejectsBadAuth ==
  /\ dpc = "start"
  /\ dMeth' = prepareSshAuthMethods(dAuth)
  /\ dhk' = hostKeyCallback(dCfg)
  /\ IF prepareSshAuthMethods(dAuth).errs # <<>>
     THEN /\ dres' = [kind |-> "prep", wrap |-> "",
                      err |-> Head(prepareSshAuthMethods(dAuth).errs)]
          /\ dpc' = "done"
     ELSE IF hostKeyCallback(dCfg).err # "nil"
     THEN /\ dres' = [kind |-> "prep", wrap |-> PrepWrap,
                      err |-> hostKeyCallback(dCfg).err]
          /\ dpc' = "done"
     ELSE /\ dres' = dres
          /\ dpc' = "dial"
  /\ UNCHANGED <<notDialVars, authVars, dCfg, dOS, dnet, dsrv>>

\* dialSsh up to ssh.Dial: the authentication methods are prepared (their
\* errors are logged only), the host key callback is resolved, and its
\* error is returned wrapped
DialResolve ==
  /\ dpc = "start"
  /\ dMeth' = prepareSshAuthMethods(dAuth)
  /\ dhk' = hostKeyCallback(dCfg)
  /\ IF hostKeyCallback(dCfg).err # "nil"
     THEN /\ dres' = [kind |-> "prep", wrap |-> PrepWrap,
                      err |-> hostKeyCallback(dCfg).err]
          /\ dpc' = "done"
     ELSE /\ dres' = dres
          /\ dpc' = "dial"
  /\ UNCHANGED <<notDialVars, authVars, dCfg, dOS, dnet, dsrv>>

\* ssh.Dial connects to the address; the host may not be reachable
DialConnect(up) ==
  /\ dpc = "dial"
  /\ dnet' = dnet + 1
  /\ IF up
     THEN /\ dpc' = "handshake"
          /\ dres' = dres
     ELSE /\ dpc' = "done"
          /\ dres' = [kind |-> "net", wrap |-> "", err |-> "connection refused"]
  /\ UNCHANGED <<notDialVars, authVars, dCfg, dOS, dhk, dMeth, dsrv>>

\* the handshake of ssh.Dial: the server presents its host key, the
\* callback decides on it, then the user is authenticated with the
\* prepared methods (authOK: the server accepts one of them)
DialHandshake(key, authOK) ==
  /\ dpc = "handshake"
  /\ dsrv' = [key |-> key, authOK |-> authOK]
  /\ dres' = IF Verify(dhk.cb, key) # "nil"
             THEN [kind |-> "handshake", wrap |-> "ssh: handshake failed",
                   err |-> Verify(dhk.cb, key)]
             ELSE IF ~authOK
             THEN [kind |-> "auth", wrap |-> "ssh: handshake failed",
                   err |-> "ssh: unable to authenticate"]
             ELSE [kind |-> "client", wrap |-> "", err |-> "nil"]
  /\ dpc' = "done"
  /\ UNCHANGED <<notDialVars, authVars, dCfg, dOS, dhk, dMeth, dnet>>

NextDial ==
  \/ DialResolve
  \/ \E up \in BOOLEAN : DialConnect(up)
  \/ \E key \in HostKeys, authOK \in BOOLEAN : DialHandshake(key, authOK)

\* ------------------------------------------------------------------------
\* Part IV.c  SshAuth.Prepare (sshconfig.go)
\* ------------------------------------------------------------------------

\* number of Prepare() calls on the one SshAuth
MaxPrepares == 2

\* auth.Prepare() is called; it changes auth
CallPrepare ==
  /\ authCalls < MaxPrepares
  /\ authWas' = auth
  /\ auth' = Prepare(auth).a
  /\ authErr' = Prepare(auth).err
  /\ authCalls' = authCalls + 1
  /\ UNCHANGED <<notDialVars, dCfg, dOS, dpc, dhk, dnet, dsrv, dres, dAuth,
                 dMeth, keyFile>>

NextAuth ==
  \/ CallPrepare
  \/ DialResolve
  \/ \E up \in BOOLEAN : DialConnect(up)
  \/ \E key \in HostKeys, authOK \in BOOLEAN : DialHandshake(key, authOK)

\* ------------------------------------------------------------------------
\* Part V.a  ExecutorFactory (factory.go)
\* ------------------------------------------------------------------------

\* the exported fields of ExecutorFactory
FactoryFields == <<"Local", "Shell", "ImmediateSsh", "KeepAliveSsh">>

\* a nil pointer
Nil == [nil |-> TRUE]

\* *SshClientConfig, as validateSshClientConfig reads it
FactoryConfigs == {Nil, [nil |-> FALSE, Addr |-> <<>>],
                   [nil |-> FALSE, Addr |-> <<"h">>]}

\* the values of the fields, as validate() reads them
Factories ==
  [Local : {Nil, [nil |-> FALSE]},
   Shell : {Nil, [nil |-> FALSE, ShellPath |-> <<>>],
            [nil |-> FALSE, ShellPath |-> <<"s", "h">>]},
   ImmediateSsh : {Nil} \cup {[nil |-> FALSE, Config |-> c] :
                                c \in FactoryConfigs},
   KeepAliveSsh : {Nil} \cup {[nil |-> FALSE, Config |-> c] :
                                c \in FactoryConfigs}]

\* the orders in which a range over the map may visit the fields
VisitOrders ==
  {o \in [1..Len(FactoryFields) -> Range(FactoryFields)] :
     Range(o) = Range(FactoryFields)}

\* An error is the chain of what it wraps, outermost first; nil is <<>>.
\* errors.Is(err, target)
ErrorsIs(e, target) == target \in Range(e)

\* validateSshClientConfig
validateSshClientConfig(c) ==
  IF c.nil THEN <<"nil ssh client config">>
  ELSE IF c.Addr = <<>> THEN <<"addr is empty">>
  ELSE <<>>

\* (e *T) validate() of the executor in field name
validate(name, e) ==
  IF e.nil THEN <<"ErrNilExecutor">>
  ELSE IF name = "Local" THEN <<>>
  ELSE IF name = "Shell"
  THEN IF e.ShellPath = <<>>
       THEN <<"ErrExecutorBadConfig", "shell path is empty">>
       ELSE <<>>
  ELSE IF e.Config.nil
  THEN <<"ErrExecutorBadConfig", "ssh config is nil">>
  ELSE IF validateSshClientConfig(e.Config) # <<>>
  THEN <<"ErrExecutorBadConfig", "ssh config is invalid">>
         \o validateSshClientConfig(e.Config)
  ELSE <<>>

\* Executor(): the switch on len(nonNilExecutors)
ExecutorSwitch(nonNil) ==
  IF Len(nonNil) = 0
  THEN [executor |-> "nil", err |-> <<"ErrExecutorNotSet", "all nil">>]
  ELSE IF Len(nonNil) = 1
  THEN [executor |-> nonNil[1], err |-> <<>>]
  ELSE [executor |-> "nil", err |-> <<"ErrMultipleExecutors">> \o nonNil]

\* mutant of ExecutorLoop: a field with a bad configuration is skipped
RECURSIVE ExecutorLoopSkipsBad(_, _, _)
ExecutorLoopSkipsBad(f, order, nonNil) ==
  IF order = <<>> THEN ExecutorSwitch(nonNil)
  ELSE LET name == Head(order)
           e == validate(name, f[name])
       IN  IF e # <<>>
           THEN ExecutorLoopSkipsBad(f, Tail(order), nonNil)
           ELSE ExecutorLoopSkipsBad(f, Tail(order), Append(nonNil, name))

\* Executor(): the range over the fields that are left to visit, then the
\* switch
RECURSIVE ExecutorLoop(_, _, _)
ExecutorLoop(f, order, nonNil) ==
  IF order = <<>> THEN ExecutorSwitch(nonNil)
  ELSE LET name == Head(order)
           e == validate(name, f[name])
       IN  IF ErrorsIs(e, "ErrNilExecutor")
           THEN ExecutorLoop(f, Tail(order), nonNil)
           ELSE IF e # <<>>
           THEN [executor |-> "nil",
                 err |-> <<"ErrExecutorBadConfig", name>> \o e]
           ELSE ExecutorLoop(f, Tail(order), Append(nonNil, name))

\* (f ExecutorFactory) Executor(); the executor returned is named by its
\* field
Executor(f, order) == ExecutorLoop(f, order, <<>>)

NoFres == [executor |-> "nil", err |-> <<"not called">>]

InitFactory ==
  /\ factory \in Factories
  /\ visit \in VisitOrders
  /\ fres = NoFres

\* factory.Executor() is called
CallExecutor ==
  /\ fres = NoFres
  /\ fres' = Executor(factory, visit)
  /\ UNCHANGED <<notFactVars, factory, visit>>

NextFactory == CallExecutor

\* ------------------------------------------------------------------------
\* Part VI.a  One KeepAliveSshExecutor shared by goroutines (executor.go)
\* ------------------------------------------------------------------------

\* number of goroutines that call Execute on the one executor, each with a
\* Command of its own and a context that is not cancelled
NUsers == 3

Users == 1..NUsers

\* the keepAliveSshClient values init() can make: one for each call
Managers == 1..NUsers

NoMgr == [made |-> FALSE, conn |-> "none", loop |-> "none"]

\* the manager the next init() makes
NewMgr == CHOOSE m \in Managers :
            ~mgr[m].made /\ \A n \in Managers : n < m => mgr[n].made

InitShare ==
  /\ eka = 0
  /\ mgr = [m \in Managers |-> NoMgr]
  /\ upc = [u \in Users |-> "idle"]
  /\ eclose = "no"

\* Execute is called (the Config is valid) and reads e.ka in
\* "if e.ka == nil"; nothing orders this read with another goroutine
ReadKa(u) ==
  /\ upc[u] = "idle"
  /\ eclose = "no"
  /\ upc' = [upc EXCEPT ![u] = IF eka = 0 THEN "init" ELSE "client"]
  /\ UNCHANGED <<notShareVars, eka, mgr, eclose>>

\* e.init(): e.ka = &keepAliveSshClient{...}; after it the command is
\* claimed and validated
InitKa(u) ==
  /\ upc[u] = "init"
  /\ eka' = NewMgr
  /\ mgr' = [mgr EXCEPT ![NewMgr].made = TRUE]
  /\ upc' = [upc EXCEPT ![u] = "client"]
  /\ UNCHANGED <<notShareVars, eclose>>

\* e.ka.Client() on the manager e.ka names now: a manager with a client
\* returns it; one without dials and, if the dial succeeds (ok), keeps the
\* connection and starts its keepAlive goroutine; if not, Execute returns
\* the error
ClientKa(u, ok) ==
  /\ upc[u] = "client"
  /\ IF mgr[eka].conn = "open"
     THEN /\ upc' = [upc EXCEPT ![u] = "session"]
          /\ UNCHANGED mgr
     ELSE IF ok
     THEN /\ mgr' = [mgr EXCEPT ![eka].conn = "open", ![eka].loop = "running"]
          /\ upc' = [upc EXCEPT ![u] = "session"]
     ELSE /\ upc' = [upc EXCEPT ![u] = "returned"]
          /\ UNCHANGED mgr
  /\ UNCHANGED <<notShareVars, eka, eclose>>

\* execWithSshClient returns and so does Execute
ReturnKa(u) ==
  /\ upc[u] = "session"
  /\ upc' = [upc EXCEPT ![u] = "returned"]
  /\ UNCHANGED <<notShareVars, eka, mgr, eclose>>

\* e.Close(), called once, when no Execute is in progress: e.ka.Close()
\* stops the keepAlive goroutine of that manager and closes its client, and
\* e.ka = nil
CloseKa ==
  /\ eclose = "no"
  /\ \A u \in Users : upc[u] \in {"idle", "returned"}
  /\ eclose' = "done"
  /\ eka' = 0
  /\ mgr' = IF eka = 0 THEN mgr
            ELSE [mgr EXCEPT
                    ![eka].conn = IF @ = "open" THEN "closed" ELSE @,
                    ![eka].loop = IF @ = "running" THEN "stopped" ELSE @]
  /\ UNCHANGED <<notShareVars, upc>>

NextShare ==
  \/ \E u \in Users : ReadKa(u)
  \/ \E u \in Users : InitKa(u)
  \/ \E u \in Users, ok \in BOOLEAN : ClientKa(u, ok)
  \/ \E u \in Users : ReturnKa(u)
  \/ CloseKa

\* ------------------------------------------------------------------------
\* Specifications
\* ------------------------------------------------------------------------

vars == <<execVars, kaVars, ivVars, dialVars, factVars, shareVars>>

\* the Command of the executions in which no Execute is called
CmdPlain == [Command |-> CmdLs, Workdir |-> <<>>, Env |-> {}]

\* the initial state of a part that does not act
QuietExec == InitExec /\ cmd = CmdPlain

QuietKA ==
  InitKA /\ KeepAlive = [IntervalSeconds |-> 3, IncrementSeconds |-> 1]

QuietInterval ==
  /\ ivIn = [c |-> [IntervalSeconds |-> 3, IncrementSeconds |-> 1],
             retries |-> 0]
  /\ ivGot = -1

QuietDial ==
  /\ dCfg = ZeroConfig
  /\ dOS = [fs |-> [p \in AllPaths |-> "missing"], goos |-> "linux",
            home |-> TRUE]
  /\ InitDial

\* Execute on one Command
QuietShare == InitShare

QuietFactory ==
  /\ factory = [Local |-> Nil, Shell |-> Nil, ImmediateSsh |-> Nil,
                KeepAliveSsh |-> Nil]
  /\ visit = FactoryFields
  /\ fres = NoFres

ExecInit ==
  InitExec /\ QuietKA /\ QuietInterval /\ QuietDial /\ QuietFactory /\ QuietShare

SpecExec == ExecInit /\ [][NextExec]_vars

\* Client() and Close() on one manager
KAInit ==
  InitKA /\ QuietExec /\ QuietInterval /\ QuietDial /\ QuietFactory /\ QuietShare

SpecKA == KAInit /\ [][NextKA]_vars

\* evaluations of interval
IntervalInit ==
  InitInterval /\ QuietExec /\ QuietKA /\ QuietDial /\ QuietFactory /\ QuietShare

SpecInterval == IntervalInit /\ [][NextInterval]_vars

\* one dialSsh
DialInit ==
  InitDial /\ QuietExec /\ QuietKA /\ QuietInterval /\ QuietFactory /\ QuietShare

SpecDial == DialInit /\ [][NextDial]_vars

\* Prepare() on one SshAuth, and one dialSsh with it in config.Auth
AuthInit ==
  InitAuth /\ QuietExec /\ QuietKA /\ QuietInterval /\ QuietFactory /\ QuietShare

SpecAuth == AuthInit /\ [][NextAuth]_vars

\* one ExecutorFactory.Executor()
FactoryInit ==
  InitFactory /\ QuietExec /\ QuietKA /\ QuietInterval /\ QuietDial
    /\ QuietShare

\* Execute calls of several goroutines on one KeepAliveSshExecutor, then
\* its Close()
ShareInit ==
  InitShare /\ QuietExec /\ QuietKA /\ QuietInterval /\ QuietDial
    /\ QuietFactory

SpecShare == ShareInit /\ [][NextShare]_vars

SpecFactory == FactoryInit /\ [][NextFactory]_vars

\* The Go scheduler runs every goroutine that can take a step, and
\* sync.Mutex hands the lock to a goroutine that has waited for it (its
\* starvation mode): a thread inside Client() or Close(), and a keepAlive
\* goroutine, that can go on again and again does go on.  Nothing obliges a
\* thread to call, or a connection to fail.
FairnessKA ==
  /\ \A t \in KAThreads : SF_vars(ThreadStep(t))
  /\ \A l \in Loops : SF_vars(LoopStep(l))

FairSpecKA == SpecKA /\ FairnessKA

\* Client() and Close() on one manager, and the sessions of Execute
SpecSession == KAInit /\ [][NextSession]_vars

\* The Go scheduler runs the goroutine of an Execute that can take a step.
\* Nothing obliges a caller to call, a context to be cancelled, a program to
\* end or the goroutine that waits for it to be scheduled.
FairnessExec == \A i \in Callers : WF_vars(ExecStep(i))

\* Execute on a Command that passes validation, with that fairness
RunInit == ExecInit /\ cmd = CmdPlain

FairSpecExec == RunInit /\ [][NextExec]_vars /\ FairnessExec

\* the goroutine started by runProc / runSshSession: proc.Wait() or
\* session.Wait() returns once the program has ended; its send on done is
\* the rendezvous SelectDone, a step of Execute
WaiterStep(i) == WaiterWait(i)

\* the program started for caller i ends
ProgramStep(i) == \E t \in Terminations(attempt.kind) : ProcEnds(i, t)

\* The most a waiting goroutine can count on: Execute is scheduled, the
\* waiting goroutine is scheduled, and every program ends.
FairnessWaiter ==
  \A i \in Callers :
    WF_vars(ExecStep(i)) /\ WF_vars(WaiterStep(i)) /\ WF_vars(ProgramStep(i))

FairSpecWaiter == RunInit /\ [][NextExec]_vars /\ FairnessWaiter

\* ------------------------------------------------------------------------
\* Part I.c  Properties of Execute
\* ------------------------------------------------------------------------

ErrStartedCommand == Err("ErrStartedCommand")

\* caller i won the compare-and-swap (it is, or was, past it)
Claimed(i) ==
  /\ pc[i] \notin {"idle", "cas"}
  /\ pc[i] = "returned" => err[i].e \notin {"ErrStartedCommand", "ErrNilCommand",
                                             "ErrBadSshConfig"}
  /\ pc[i] = "returned" /\ err[i].e = "ErrCtx" => eff[i].kills > 0

\* caller i returned without having won the compare-and-swap
Lost(i) == pc[i] = "returned" /\ ~Claimed(i)

AtMostOneAttempt ==
  /\ Cardinality({i \in Callers : Claimed(i)}) <= 1
  /\ Cardinality({i \in Callers : eff[i].procs > 0}) <= 1
  /\ \A i \in Callers : eff[i].procs <= 1 /\ eff[i].sess <= 1
  /\ (started \/ \E i \in Callers : Lost(i) /\ err[i] = ErrStartedCommand)
       => \E i \in Callers : Claimed(i)

\* C1 as stated: of the concurrent Execute calls on one Command whose context
\* is not done, exactly one claims the command and every other one returns
\* ErrStartedCommand; at most one process or session is spawned.
C1_Stated ==
  /\ AtMostOneAttempt
  /\ \A i \in Callers :
       Lost(i) /\ ~ctxDone[i] /\ err[i].e # "ErrNilCommand"
         => err[i] = ErrStartedCommand

\* C1 (amended): of the concurrent Execute calls on one Command whose context
\* is not done and whose executor has a valid configuration, exactly one
\* claims the command and every other one returns ErrStartedCommand; at most
\* one process or session is spawned.  (An SSH executor with a nil Config or
\* an empty Addr returns ErrBadSshConfig before it looks at the flag.)
C1_ExactlyOneClaims ==
  /\ AtMostOneAttempt
  /\ \A i \in Callers :
       Lost(i) /\ ~ctxDone[i] /\ err[i].e \notin {"ErrNilCommand", "ErrBadSshConfig"}
         => err[i] = ErrStartedCommand

\* all callers entered Execute before the flag was set; one has just won
C1_Witness ==
  \E i \in Callers :
    /\ pc[i] = "setStatus"
    /\ \A j \in Callers \ {i} : pc[j] = "cas" /\ ~call[j].late

\* the flag never goes back, and a call that enters after the flag was set
\* and reaches the compare-and-swap returns ErrStartedCommand
FlagMonotonic ==
  /\ started => started'
  /\ \A i \in Callers :
       pc[i] = "cas" /\ call[i].late /\ pc'[i] # "cas"
         => pc'[i] = "returned" /\ err'[i] = ErrStartedCommand

\* C2 as stated: the start flag never returns to false, and every Execute
\* on the Command that is entered after the flag was claimed returns
\* ErrStartedCommand (a call with a nil cmd is not a call on the Command).
C2_Stated ==
  [][ /\ FlagMonotonic
      /\ \A i \in Callers :
           started /\ pc[i] = "idle" /\ pc'[i] = "returned"
             => err'[i].e = "ErrNilCommand" ]_vars

\* C2 (amended): the start flag never returns to false, and every Execute
\* on the Command that is entered after the flag was claimed either fails an
\* entry check (context done, bad SSH configuration) or returns
\* ErrStartedCommand; none claims the command again.
C2_FlagMonotonic ==
  [][ /\ FlagMonotonic
      /\ \A i \in Callers :
           started /\ pc[i] = "idle" /\ pc'[i] = "returned"
             => err'[i].e \in {"ErrNilCommand", "ErrCtx", "ErrBadSshConfig"} ]_vars

\* the first attempt is over (with an error) and a later call is in progress
C2_Witness ==
  \E i, j \in Callers :
    /\ pc[j] = "returned" /\ Claimed(j) /\ err[j] # NoErr
    /\ pc[i] = "cas" /\ call[i].late

\* C3: a call that returned ErrStartedCommand has written no Status, touched
\* no stdio handle, created no process or session and dialed no connection.
C3_LoserDoesNothing ==
  \A i \in Callers :
    pc[i] = "returned" /\ err[i] = ErrStartedCommand => eff[i] = NoEff

\* a call returned ErrStartedCommand while the winner's program is running
C3_Witness ==
  \E i, j \in Callers :
    /\ pc[i] = "returned" /\ err[i] = ErrStartedCommand
    /\ pc[j] = "select" /\ proc[j].st = "running"

\* the claimed attempt of caller i is over
Finished(i) == attempt.by = i /\ pc[i] = "returned"

C5_Stated ==
  \A i \in Callers :
    Finished(i) /\ eff[i].kills > 0 => err[i] = Err("ErrCtx") /\ Status = -1

\* what the claim names as a validation failure
Denylisted(s) == \E j \in 1..Len(WorkdirDangerous) : Contains(s, WorkdirDangerous[j])

ClaimInvalid(c) ==
  \/ c.Command = <<>>
  \/ Denylisted(c.Workdir)
  \/ \E kv \in c.Env : Denylisted(kv[1]) \/ Denylisted(kv[2])
  \/ Contains(c.Command, ForkBomb)

\* C6: if the command is invalid (empty text, denylisted substring in the
\* workdir or in an env key or value, fork bomb in the text), no call ever
\* creates a process, a connection or a session, and the call that claimed
\* the command returns an error with Status -1.
C6_ValidationFirst ==
  ClaimInvalid(cmd) =>
    \A i \in Callers :
      /\ eff[i].procs = 0 /\ eff[i].dials = 0 /\ eff[i].sess = 0
      /\ pc[i] # "panicked"
      /\ Finished(i) => err[i] # NoErr /\ Status = -1

\* an attempt on a command with a denylisted env value is over
C6_Witness ==
  \E i \in Callers :
    /\ Finished(i)
    /\ \E kv \in cmd.Env : Denylisted(kv[2])
    /\ Status = -1

\* C7 as stated: an attempt through LocalExecutor and one through
\* KeepAliveSshExecutor leave the same Status: 0 on success, K when the
\* program exits with code K, -1 with the context's error when cancelled.
C7_Stated ==
  \A i \in Callers :
    Finished(i) /\ attempt.kind \in {"Local", "KeepAliveSsh"} =>
      /\ err[i] = NoErr => Status = 0
      /\ \A k \in ExitCodes : err[i] = ExitError(k) => Status = k
      /\ eff[i].kills > 0 => err[i] = Err("ErrCtx") /\ Status = -1

\* C21: a call of ImmediateSshExecutor.Execute dials at most once, and when
\* it returns it has closed every connection it dialed, whether the command
\* succeeded or failed, the session could not be created or the context was
\* cancelled; a call that does not claim the command dials nothing.
C21_DialOnceAndClose ==
  \A i \in Callers :
    /\ attempt.by # i => eff[i].dials = 0 /\ eff[i].conns = 0
    /\ attempt.by = i /\ attempt.kind = "ImmediateSsh" =>
         /\ eff[i].dials <= 1
         /\ eff[i].conns <= eff[i].dials
         /\ eff[i].connClosed <= eff[i].conns
         /\ pc[i] = "returned" => eff[i].connClosed = eff[i].conns

\* an ImmediateSsh call was cancelled during the run and returned, with its
\* connection closed, while the remote command is still running
C21_Witness ==
  \E i \in Callers :
    /\ Finished(i)
    /\ attempt.kind = "ImmediateSsh"
    /\ err[i] = Err("ErrCtx")
    /\ proc[i].st = "running"
    /\ eff[i].dials = 1
    /\ eff[i].conns = 1
    /\ eff[i].connClosed = 1

\* C22: a call of KeepAliveSshExecutor.Execute that has acquired the
\* connection opens one session on it (none if NewSession fails, never
\* two), has closed that session when it returns, on success, failure and
\* cancellation, and never closes the connection, which the client keeps.
C22_OneSessionKeepsConn ==
  \A i \in Callers :
    attempt.by = i /\ attempt.kind = "KeepAliveSsh" =>
      /\ eff[i].sess <= eff[i].conns
      /\ eff[i].conns <= 1
      /\ eff[i].sessClosed <= eff[i].sess
      /\ eff[i].connClosed = 0
      /\ eff[i].conns = 1 => kaConn
      /\ pc[i] \in {"sessStart", "select", "closeSession"} => eff[i].sess = 1
      /\ pc[i] = "returned" =>
           /\ eff[i].sessClosed = eff[i].sess
           /\ eff[i].conns = 1 /\ err[i] # Err("ErrNewSession") =>
                eff[i].sess = 1

\* a KeepAliveSsh call was cancelled during the run and returned with its
\* one session closed and the connection still held by the client
C22_Witness ==
  \E i \in Callers :
    /\ Finished(i)
    /\ attempt.kind = "KeepAliveSsh"
    /\ err[i] = Err("ErrCtx")
    /\ eff[i].sess = 1
    /\ eff[i].sessClosed = 1
    /\ eff[i].connClosed = 0
    /\ kaConn

\* C24 as stated: within one attempt Status is written exactly once, and
\* that write follows the terminal outcome: no write before the call
\* returns, one when it has returned.
C24_Stated ==
  \A i \in Callers :
    /\ attempt.by # i => eff[i].status = 0
    /\ attempt.by = i =>
         /\ pc[i] \notin {"returned", "panicked"} => eff[i].status = 0
         /\ pc[i] = "returned" => eff[i].status = 1

\* Local or Shell returned before the deferred function was registered
EarlyReturn(i) ==
  /\ attempt.kind \in ProcKinds
  /\ err[i].e \in {"ErrInvalidCommand", "ErrParseCommand"}

\* C24, amended: within one attempt Status is written at most twice.  The
\* first write is the reset to -1 right after the command is claimed, before
\* validation; Status stays -1 while the attempt is in progress.  The second
\* write is made by the deferred function in the step that returns, after
\* the one terminal outcome; it is missing only when Local or Shell return
\* a validation or parse error (or panic).  A call that does not claim the
\* command writes nothing.
C24_ResetThenFinalWrite ==
  \A i \in Callers :
    /\ attempt.by # i => eff[i].status = 0
    /\ attempt.by = i =>
         /\ pc[i] = "setStatus" => eff[i].status = 0
         /\ pc[i] \notin {"setStatus", "returned"} =>
              eff[i].status = 1 /\ Status = -1
         /\ pc[i] = "returned" =>
              eff[i].status = IF EarlyReturn(i) THEN 1 ELSE 2

\* an attempt has ended in success with both writes made: Status is 0
C24_Witness ==
  \E i \in Callers :
    /\ Finished(i)
    /\ err[i] = NoErr
    /\ eff[i].status = 2
    /\ Status = 0

\* the select of caller i has taken the ctx.Done() branch
CancelObserved(i) == eff[i].kills = 1

\* C25: once the select has taken the ctx.Done() branch, Execute has issued
\* one kill (never a second one) and goes on to return the context's error;
\* no step on the way waits for the program, so it returns even if the kill
\* has no effect and the program never ends.
C25_CancelReturns ==
  /\ [](\A i \in Callers : eff[i].kills <= 1)
  /\ \A i \in Callers :
       CancelObserved(i) ~>
         (pc[i] = "returned" /\ err[i] = Err("ErrCtx") /\ eff[i].kills = 1)

\* an Execute returned the cancellation error while the program it started
\* is still running and the goroutine that waits for it still waits
C25_Witness ==
  \E i \in Callers :
    /\ Finished(i)
    /\ err[i] = Err("ErrCtx")
    /\ eff[i].kills = 1
    /\ proc[i].st = "running"
    /\ wpc[i] = "wait"

\* C38 as stated: LocalExecutor.Execute does not panic: when the command
\* passes Validate and cmdSlice gives no word, the attempt returns an error
\* and Status is -1.
C38_Stated ==
  \A i \in Callers :
    (/\ attempt.by = i
     /\ attempt.kind = "Local"
     /\ Validate(cmd) = NoErr
     /\ cmdSlice(cmd.Command) = [err |-> FALSE, words |-> 0]
     /\ pc[i] \notin {"setStatus", "validate", "start"})
      => (pc[i] = "returned" /\ err[i] # NoErr /\ Status = -1)

\* caller i calls Execute in this step, which takes it through the checks
\* that precede the compare-and-swap
Enters(i) == pc[i] = "idle" /\ pc'[i] # "idle"

C36_Stated ==
  \A i \in Callers : (wpc[i] \in {"wait", "send"}) ~> (wpc[i] = "end")

\* Execute has returned the context's error and its waiting goroutine is at
\* the send on done, which no one will receive
WaiterBlocked ==
  \E i \in Callers :
    /\ pc[i] = "returned"
    /\ err[i] = Err("ErrCtx")
    /\ wpc[i] = "send"

\* caller i's step starts a program: proc.Start() or session.Start(cmdStr)
\* succeeds
Starts(i) == proc[i].st # "running" /\ proc'[i].st = "running"

\* C37 as stated: no process and no remote command is started once the
\* context is cancelled; a cancellation while Execute dials, acquires the
\* connection or opens the session means that the command is never started.
C37_Stated ==
  [][\A i \in Callers : Starts(i) => ~ctxDone[i]]_vars

\* a remote command runs although its context was cancelled before
\* session.Start: the select has not been reached when it starts
StartedAfterCancel ==
  \E i \in Callers :
    /\ call[i].kind \in {"ImmediateSsh", "KeepAliveSsh"}
    /\ ctxDone[i]
    /\ proc[i].st = "running"
    /\ eff[i].kills = 0
    /\ pc[i] = "select"

\* ------------------------------------------------------------------------
\* Part II.b  Properties of keepAliveSshClient
\* ------------------------------------------------------------------------

\* the last call of thread t was Close() and it has returned
CloseReturned(t) == tpc[t] = "returned" /\ top[t] = "Close"

\* no handle's Close() was called twice
NoDoubleClose == \A h \in Handles : closes[h] <= 1

\* a Close() after the first returned ErrAlreadyClosed and closed nothing
LaterCloseRefused(t) ==
  tdid[t].ord > 1 => tres[t].err = ErrAlreadyClosed /\ tdid[t].closed = 0

\* C8 as stated: the first Close() returns success (nil), every later
\* Close() returns ErrAlreadyClosed and closes nothing, and nothing is
\* closed twice.
C8_Stated ==
  /\ NoDoubleClose
  /\ \A t \in KAThreads :
       CloseReturned(t) =>
         /\ tdid[t].ord = 1 => tres[t].err = NoErr
         /\ LaterCloseRefused(t)

\* C8, amended: the first Close() returns the result of closing the handle
\* the manager held (nil when it held none or the handle closed cleanly,
\* never ErrAlreadyClosed); every later Close() returns ErrAlreadyClosed
\* and closes nothing; no handle is closed twice.
C8_CloseOnce ==
  /\ NoDoubleClose
  /\ \A t \in KAThreads :
       CloseReturned(t) =>
         /\ tdid[t].ord = 1 =>
              /\ tres[t].err \in {NoErr, ErrConnClose}
              /\ tres[t].err = ErrConnClose => tdid[t].closed = 1
         /\ LaterCloseRefused(t)

\* C8 witness: a first Close() that closed a connection has returned and
\* so has a later Close() of another thread.
C8_Witness ==
  \E t, u \in KAThreads :
    /\ CloseReturned(t) /\ tdid[t].ord = 1 /\ tdid[t].closed = 1
    /\ CloseReturned(u) /\ tdid[u].ord = 2

\* the manager is shut down: no keepAlive goroutine is running, it holds no
\* handle and no dialed handle is left unclosed
ShutDown ==
  /\ \A l \in Loops : loops[l].pc \in {"none", "exited"}
  /\ client = 0
  /\ \A h \in Handles : conn[h] \in {"none", "closed"}

\* thread t returns from Close() in this step
CloseReturns(t) ==
  top[t] = "Close" /\ tpc[t] # "returned" /\ tpc'[t] = "returned"

\* C9 as stated: at every return of Close() no probe loop of the manager is
\* running, the manager holds no handle and every handle that was live has
\* been closed.
C9_Stated ==
  [][\A t \in KAThreads : CloseReturns(t) => ShutDown']_vars

\* The same holds at the return of the Close() that found the manager open
\* (the one that does not return ErrAlreadyClosed).
ClosingCloseShutsDown ==
  [][\A t \in KAThreads :
       CloseReturns(t) /\ tres'[t].err # ErrAlreadyClosed => ShutDown']_vars

\* C10 as stated: a Close() that has been called eventually returns.
C10_Stated ==
  \A t \in KAThreads :
    (top[t] = "Close" /\ tpc[t] = "lock") ~> (tpc[t] = "returned")

\* a Close() that found the manager open has returned: the manager is
\* marked closed and no thread is inside that Close() any more
CloseDone ==
  /\ closed
  /\ \A t \in KAThreads :
       top[t] = "Close" => tpc[t] \in {"idle", "lock", "returned"}

\* C11 as stated: once Close() has returned the manager stays closed: no
\* later Client() establishes a connection or starts a probe loop, so it
\* holds no handle, no dialed handle is open and no keepAlive goroutine runs.
C11_Stated == CloseDone => ShutDown

\* thread t, inside Client(), takes the lock in this step
ClientLocks(t) == top[t] = "Client" /\ tpc[t] = "lock" /\ tpc'[t] # "lock"

\* thread t, inside Client(), ends its dialSsh in this step
ClientDials(t) == top[t] = "Client" /\ tpc[t] = "dial" /\ tpc'[t] # "dial"

\* C16: Client() on a manager that holds a handle returns that handle at
\* once, with no dial and no change of the manager; Client() dials only
\* when the manager holds no handle.
C16_ReuseHandle ==
  [][\A t \in KAThreads :
       /\ ClientLocks(t) /\ client # 0 =>
            /\ tpc'[t] = "returned"
            /\ tres'[t] = [err |-> NoErr, h |-> client]
            /\ UNCHANGED <<client, conn, closes, loops, wg, stopCh, closed>>
       /\ ClientLocks(t) /\ client = 0 => tpc'[t] = "dial"
       /\ tpc'[t] = "dial" => client' = 0]_vars

\* C16 witness: two Client() calls have returned the same handle (a dial
\* yields a new handle each time, so one of them did not dial).
C16_Witness ==
  \E t, u \in KAThreads :
    /\ t # u
    /\ top[t] = "Client" /\ tpc[t] = "returned"
    /\ top[u] = "Client" /\ tpc[u] = "returned"
    /\ tres[t].h # 0 /\ tres[t].h = tres[u].h /\ tres[u].err = NoErr

\* C17: a Client() whose dial fails (no connection is made) returns the
\* dial error and no handle, and leaves the manager as it was:
\* disconnected, with no probe loop started or stopped by the call.
C17_FailedDial ==
  [][\A t \in KAThreads :
       ClientDials(t) /\ conn' = conn =>
         /\ tpc'[t] = "returned"
         /\ tres'[t] = [err |-> ErrDial, h |-> 0]
         /\ client = 0 /\ client' = 0
         /\ UNCHANGED <<closes, loops, wg, stopCh, stopChClosed, closed>>]_vars

\* C17 witness: a Client() has returned the dial error on a manager that
\* holds no handle and never started a probe loop.
C17_Witness ==
  \E t \in KAThreads :
    /\ top[t] = "Client" /\ tpc[t] = "returned" /\ tres[t].err = ErrDial
    /\ client = 0
    /\ \A l \in Loops : loops[l].pc = "none"

\* keepAlive goroutine l ends a liveness probe in this step
ProbeEnds(l) == loops[l].pc = "probe" /\ loops'[l].pc # "probe"

\* keepAlive goroutine l ends the dial of a redial in this step
RedialEnds(l) == loops[l].pc = "redial" /\ loops'[l].pc # "redial"

\* C18: a probe that fails (the connection is not healthy) closes the
\* handle and leaves the manager disconnected; a redial that fails leaves
\* it disconnected; neither gives any caller a result.  A Client() on the
\* disconnected manager dials, and what a Client() returns is the outcome
\* of its own dial (the new handle, or the dial error) or the handle held.
C18_BackgroundFailure ==
  [][/\ \A l \in Loops :
          /\ ProbeEnds(l) /\ conn[client] # "open" =>
               /\ conn'[client] = "closed"
               /\ closes'[client] = closes[client] + 1
               /\ client' = 0
               /\ UNCHANGED <<tpc, tres>>
          /\ RedialEnds(l) /\ conn' = conn =>
               /\ client' = client
               /\ UNCHANGED <<tpc, tres>>
     /\ \A t \in KAThreads :
          /\ ClientLocks(t) /\ client = 0 => tpc'[t] = "dial"
          /\ top[t] = "Client" /\ tpc[t] # "returned"
               /\ tpc'[t] = "returned" =>
               \/ tres'[t].err = NoErr /\ tres'[t].h = client' /\ client' # 0
               \/ /\ tres'[t] = [err |-> ErrDial, h |-> 0]
                  /\ ClientDials(t) /\ conn' = conn]_vars

\* C18 witness: after a failed probe closed the first handle, a Client()
\* has dialed again and returned the second handle.
C18_Witness ==
  \E t \in KAThreads :
    /\ conn[1] = "closed" /\ ~closed
    /\ top[t] = "Client" /\ tpc[t] = "returned"
    /\ tres[t] = [err |-> NoErr, h |-> 2]
    /\ client = 2

\* ------------------------------------------------------------------------
\* Part III.b  Properties of interval
\* ------------------------------------------------------------------------

MaxOf(a, b) == IF a >= b THEN a ELSE b

\* max(base + increment * r', floor) as a number of ticks, with a negative
\* base replaced by 0 and r' = max(r, 0)
Schedule(c, r) ==
  MaxOf((MaxOf(c.IntervalSeconds, 0) + c.IncrementSeconds * MaxOf(r, 0))
          * Second,
        MinSshKeepAliveInterval)

\* max(base, floor) as a number of ticks
BaseOrFloor(c) == MaxOf(c.IntervalSeconds * Second, MinSshKeepAliveInterval)

\* interval has been called
IntervalCalled == ivGot # -1

\* C19 as stated: interval(r) = max(base + increment * r', floor); base 3s,
\* increment 1s, r = 4 give 7s; base -3s, r = 0 give the floor.
C19_Stated ==
  /\ IntervalCalled => ivGot = Schedule(ivIn.c, ivIn.retries)
  /\ interval([IntervalSeconds |-> 3, IncrementSeconds |-> 1], 4) = 7 * Second
  /\ interval([IntervalSeconds |-> -3, IncrementSeconds |-> 1], 0)
       = MinSshKeepAliveInterval

\* the value of Schedule is one a Duration can hold
Fits(c, r) ==
  LET h == Pow2(DurationBits - 1)
  IN  Schedule(c, r) < h
        /\ (MaxOf(c.IntervalSeconds, 0) + c.IncrementSeconds * MaxOf(r, 0))
             * Second >= -h

\* The equation of C19 holds whenever its right-hand side is a value a
\* Duration can hold.
IntervalExactWhenItFits ==
  IntervalCalled /\ Fits(ivIn.c, ivIn.retries) =>
    ivGot = Schedule(ivIn.c, ivIn.retries)

\* C20 as stated: for all base, increment and r, interval(r) is at least
\* the floor and positive; with increment >= 0 it does not decrease from r
\* to r + 1 and is never below max(base, floor); with r <= 0 or
\* increment = 0 it is max(base, floor).
C20_Stated ==
  IntervalCalled =>
    /\ ivGot >= MinSshKeepAliveInterval /\ ivGot > 0
    /\ ivIn.c.IncrementSeconds >= 0 =>
         /\ interval(ivIn.c, ivIn.retries + 1) >= ivGot
         /\ ivGot >= BaseOrFloor(ivIn.c)
    /\ ivIn.retries <= 0 \/ ivIn.c.IncrementSeconds = 0 =>
         ivGot = BaseOrFloor(ivIn.c)

\* Whatever the arguments, interval(r) is at least the floor, so positive.
IntervalAtLeastFloor ==
  IntervalCalled => ivGot >= MinSshKeepAliveInterval /\ ivGot > 0

\* ------------------------------------------------------------------------
\* Part IV.b  Properties of dialSsh and hostKeyCallback
\* ------------------------------------------------------------------------

\* the host key callback has been resolved
Resolved == dpc # "start"

\* no field of the config selects a policy: the system default applies
PolicyDefault ==
  IF dCfg.nil THEN TRUE
  ELSE /\ dCfg.FixedHostKey = <<>>
       /\ dCfg.KnownHostsPath = <<>>
       /\ ~dCfg.InsecureIgnore

\* there is no known_hosts file at any of the default locations
NoKnownHostsFile ==
  \A p \in Range(SystemKnownHosts) \cup Range(UserKnownHosts) :
    dOS.fs[p] = "missing"

\* dialSsh returned an error of the preparation of the host key callback
PrepError == dpc = "done" /\ dres.kind = "prep"

Governing(c) ==
  IF c.nil THEN ZeroConfig
  ELSE IF c.FixedHostKey # <<>>
  THEN [ZeroConfig EXCEPT !.FixedHostKey = c.FixedHostKey]
  ELSE IF c.KnownHostsPath # <<>>
  THEN [ZeroConfig EXCEPT !.KnownHostsPath = c.KnownHostsPath]
  ELSE IF c.InsecureIgnore
  THEN [ZeroConfig EXCEPT !.InsecureIgnore = TRUE]
  ELSE ZeroConfig

BadFixedKey ==
  ~dCfg.nil /\ ParseAuthorizedKey(dCfg.FixedHostKey).err # "nil"

\* C14 as stated: a config whose FixedHostKey is empty or unparseable makes
\* the dial fail with a preparation error and never resolves to a verifier
\* that accepts the host.
C14_Stated ==
  Resolved /\ BadFixedKey =>
    /\ dhk.err # "nil"
    /\ dhk.cb = NoCallback
    /\ PrepError
    /\ dres.kind # "client"

\* C14, amended: a FixedHostKey that is not the empty string and does not
\* parse (white space only, or text that is no key) makes the dial fail
\* with the wrapped preparation error "no key found", with no verifier and
\* no connection attempted; the empty string is the unset field, and the
\* config resolves as the same config without a fixed key does.
C14_UnparseableKeyIsError ==
  Resolved /\ BadFixedKey =>
    IF dCfg.FixedHostKey # <<>>
    THEN /\ dhk = [cb |-> NoCallback, err |-> NoKeyFound]
         /\ PrepError
         /\ dres = [kind |-> "prep", wrap |-> PrepWrap, err |-> NoKeyFound]
         /\ dnet = 0
    ELSE dhk = hostKeyCallback(Governing(dCfg))

\* a white-space-only fixed key, with InsecureIgnore set, ended the dial
\* with the preparation error
C14_Witness ==
  /\ PrepError
  /\ ~dCfg.nil
  /\ dCfg.FixedHostKey = <<" ">>
  /\ dCfg.InsecureIgnore
  /\ dres.err = NoKeyFound

\* the empty fixed key with InsecureIgnore set: the dial returned a client
\* of a server whose key nothing lists
EmptyKeyAccepted ==
  /\ dpc = "done"
  /\ ~dCfg.nil
  /\ dCfg.FixedHostKey = <<>>
  /\ dres.kind = "client"
  /\ dsrv.key = "B"

\* a cause of failure named by the claim: a fixed key that is set and does
\* not parse, or a missing or malformed file among those that
\* knownhosts.New is given
ResolutionFails ==
  IF dCfg.nil THEN KnownHostsErr(defaultKnownHostsPaths) # "nil"
  ELSE IF dCfg.FixedHostKey # <<>> THEN BadFixedKey
  ELSE IF dCfg.KnownHostsPath # <<>>
  THEN \E p \in Range(dCfg.KnownHostsPath) : dOS.fs[p] # "listsA"
  ELSE IF dCfg.InsecureIgnore THEN FALSE
  ELSE KnownHostsErr(defaultKnownHostsPaths) # "nil"

\* C15: when the host key policy cannot be resolved (a set fixed key that
\* does not parse, a missing or malformed known_hosts file), dialSsh
\* returns the error wrapped in "failed to prepare SSH host key callback",
\* and no network connection has been attempted.
C15_PrepErrorBeforeNetwork ==
  Resolved =>
    /\ ResolutionFails <=> dhk.err # "nil"
    /\ dhk.err # "nil" =>
         /\ dpc = "done"
         /\ dres = [kind |-> "prep", wrap |-> PrepWrap, err |-> dhk.err]
         /\ dhk.cb = NoCallback
         /\ dnet = 0
         /\ dsrv = NoSrv
    /\ dres.kind = "prep" => dhk.err # "nil"

\* a missing known_hosts file of KnownHostsPath ended the dial with the
\* wrapped error
C15_Witness ==
  /\ PrepError
  /\ ~dCfg.nil
  /\ dCfg.FixedHostKey = <<>>
  /\ dCfg.KnownHostsPath = <<"kh1", "kh2">>
  /\ dOS.fs["kh1"] = "listsA"
  /\ dOS.fs["kh2"] = "missing"
  /\ dres.wrap = PrepWrap
  /\ dres.err = NoSuchFile
  /\ dnet = 0

\* ------------------------------------------------------------------------
\* Part IV.d  Properties of SshAuth and of the credentials of a dial
\* ------------------------------------------------------------------------

\* C26: Prepare() succeeds only on an SshAuth with exactly one of Password,
\* PrivateKey, PrivateKeyPath set and no custom method, or with a custom
\* method and none of the three; with two or more of the fields, with a
\* custom method and a field, or with nothing set, it returns
\* ErrSshAuthMutex.  (authWas is the receiver as the call found it.)
C26_PrepareExactlyOne ==
  authCalls > 0 =>
    LET n == Cardinality({f \in {"Password", "PrivateKey", "PrivateKeyPath"} :
                            authWas[f] # <<>>})
        custom == authWas.authMethod # "nil"
    IN  /\ authErr = "nil" => \/ n = 1 /\ ~custom
                              \/ n = 0 /\ custom
        /\ (n >= 2 \/ (custom /\ n >= 1) \/ (n = 0 /\ ~custom))
             => authErr = ErrSshAuthMutex

\* Prepare() has found PrivateKeyPath alone, read the key and succeeded
C26_Witness ==
  /\ authCalls = 1
  /\ authWas.PrivateKeyPath # <<>>
  /\ authWas.Password = <<>>
  /\ authWas.PrivateKey = <<>>
  /\ authWas.authMethod = "nil"
  /\ authErr = "nil"
  /\ auth.authMethod = "publickey"

\* config.Auth has an entry that breaks the exactly-one rule
HasMutexEntry ==
  \E k \in 1..Len(dAuth) : Prepare(dAuth[k]).err = ErrSshAuthMutex

\* C27 as stated: a dial whose config.Auth has an entry that breaks the
\* exactly-one rule ends in a configuration error with no network I/O done.
C27_Stated ==
  (HasMutexEntry /\ dpc = "done") => (dres.kind = "prep" /\ dnet = 0)

\* C27, amended: the entry that breaks the exactly-one rule is found before
\* any network I/O and left out of the methods given to ssh.Dial, and the
\* dial goes on with the others: the only error returned before the network
\* is that of the host key callback, and with a callback resolved the dial
\* connects to the address.
C27_BadEntryIsDropped ==
  (HasMutexEntry /\ Resolved) =>
    /\ ErrSshAuthMutex \in Range(dMeth.errs)
    /\ Len(dMeth.methods) + Len(dMeth.errs) = Len(dAuth)
    /\ dres.kind = "prep" => (dhk.err # "nil" /\ dres.err = dhk.err)
    /\ (dpc = "done" /\ dhk.err = "nil") => dnet = 1

\* an entry with a Password and a PrivateKeyPath comes before one with a
\* Password alone, and the dial has returned a client
C27_Witness ==
  /\ Len(dAuth) = 2
  /\ dAuth[1].Password # <<>>
  /\ dAuth[1].PrivateKeyPath # <<>>
  /\ dAuth[2] = PasswordAuth
  /\ dMeth = [methods |-> <<"password">>, errs |-> <<ErrSshAuthMutex>>]
  /\ dpc = "done"
  /\ dres.kind = "client"
  /\ dnet = 1

\* ------------------------------------------------------------------------
\* Part V.b  Properties of ExecutorFactory
\* ------------------------------------------------------------------------

\* the fields that are not nil, and those of them that fail validation
NonNilFields == {n \in Range(FactoryFields) : ~factory[n].nil}

BadFields == {n \in NonNilFields : validate(n, factory[n]) # <<>>}

\* the class of a result of Executor(): the sentinel error, or "executor"
OutcomeClass(r) == IF r.err = <<>> THEN "executor" ELSE Head(r.err)

\* C28: Executor() returns the one configured executor when exactly one
\* field is non-nil and it is valid; ErrExecutorNotSet when every field is
\* nil; ErrExecutorBadConfig when a non-nil field fails validation, whatever
\* the other fields are; ErrMultipleExecutors when two or more fields are
\* non-nil and all of them valid.  Every order of visiting the fields gives
\* the same class of outcome.
C28_FactoryOutcome ==
  fres # NoFres =>
    /\ (Cardinality(NonNilFields) = 1 /\ BadFields = {})
         => (fres.err = <<>> /\ fres.executor \in NonNilFields)
    /\ NonNilFields = {}
         => (ErrorsIs(fres.err, "ErrExecutorNotSet") /\ fres.executor = "nil")
    /\ BadFields # {}
         => (ErrorsIs(fres.err, "ErrExecutorBadConfig")
               /\ fres.executor = "nil")
    /\ (Cardinality(NonNilFields) >= 2 /\ BadFields = {})
         => (ErrorsIs(fres.err, "ErrMultipleExecutors")
               /\ fres.executor = "nil")
    /\ \A o \in VisitOrders :
         OutcomeClass(Executor(factory, o)) = OutcomeClass(fres)

\* a valid Local was visited before a Shell without a ShellPath, and
\* Executor() returned ErrExecutorBadConfig
C28_Witness ==
  /\ fres # NoFres
  /\ visit = FactoryFields
  /\ ~factory.Local.nil
  /\ BadFields = {"Shell"}
  /\ fres.executor = "nil"
  /\ fres.err = <<"ErrExecutorBadConfig", "Shell", "ErrExecutorBadConfig",
                  "shell path is empty">>

\* ------------------------------------------------------------------------
\* Part II.c  The goroutines and the lock of keepAliveSshClient
\* ------------------------------------------------------------------------

\* the keepAlive goroutines that have been started and have not returned
RunningLoops == {l \in Loops : loops[l].pc \notin {"none", "exited"}}

\* C30: at most one keepAlive goroutine of a manager runs at any time.  None
\* runs before a dial of Client() has succeeded, the WaitGroup counts the
\* goroutine that runs, and the goroutine a later dial of Client() starts
\* runs only after the one before it has returned.
C30_AtMostOneLoop ==
  /\ Cardinality(RunningLoops) <= 1
  /\ wg = Cardinality(RunningLoops)
  /\ (\A h \in Handles : conn[h] = "none") => RunningLoops = {}

\* the connection of the first Client() was lost, a later Client() has dialed
\* again and returned, and its goroutine runs after the first has returned
C30_Witness ==
  /\ loops[1].pc = "exited"
  /\ RunningLoops = {2}
  /\ client = 2
  /\ closed = FALSE
  /\ \E t \in KAThreads : /\ tpc[t] = "returned"
                          /\ top[t] = "Client"
                          /\ tres[t] = [err |-> NoErr, h |-> 2]

\* the next step of keepAlive goroutine l reads c.client, and l does not
\* hold the lock: the check after tryKeepAlive has returned
ReadsUnlocked(l) == loops[l].pc = "post" /\ mu # ByLoop(l)

\* thread t holds the lock in Client() and its next step may store the
\* client it dials in c.client
WritesClient(t) == mu = ByThread(t) /\ tpc[t] = "dial" /\ CanDial

\* C29 as stated: c.client is read, stored and closed only by the holder of
\* the lock, the checks of the keepAlive goroutine included, so that no
\* goroutine is about to read c.client when another is about to store it.
C29_Stated ==
  \A l \in Loops, t \in KAThreads : ~(ReadsUnlocked(l) /\ WritesClient(t))

\* thread t is at c.mu.Lock() in Client()
AtClientLock(t) == tpc[t] = "lock" /\ top[t] = "Client"

\* C23: the lock of the manager is not held while a session is created or
\* run.  A thread that Client() has returned a client to, and one whose
\* session runs, does not hold the lock; whoever holds it is inside
\* Client() or Close(), or is the keepAlive goroutine in its probe.  A
\* session can be created and can end whoever holds the lock, and a
\* Client() that finds the lock free takes it however many sessions run.
C23_SessionsOutsideLock ==
  /\ \A t \in KAThreads :
       /\ (HasClient(t) \/ tpc[t] = "run") => mu # ByThread(t)
       /\ mu = ByThread(t) => tpc[t] \in {"dial", "stop", "wait", "made"}
       /\ HasClient(t) => ENABLED SessionNew(t, FALSE)
       /\ (HasClient(t) /\ conn[tres[t].h] = "open")
            => ENABLED SessionNew(t, TRUE)
       /\ tpc[t] = "run" => ENABLED SessionEnd(t)
       /\ (AtClientLock(t) /\ mu = Free) => ENABLED ClientLock(t)
  /\ \A l \in Loops : mu = ByLoop(l) => loops[l].pc = "probe"

\* two sessions run at once on the one client of the manager, and the lock
\* is free
C23_Witness ==
  /\ tpc[1] = "run"
  /\ tpc[2] = "run"
  /\ tres[1].h = client
  /\ tres[2].h = client
  /\ conn[client] = "open"
  /\ mu = Free

\* ------------------------------------------------------------------------
\* Part IV.e  Prepare() called again
\* ------------------------------------------------------------------------

\* C39 as stated: a second Prepare() on an SshAuth that the first has
\* prepared from its Password, PrivateKey or PrivateKeyPath succeeds and
\* leaves the auth method in place.
C39_Stated ==
  (authCalls = 2 /\ authWas.authMethod \in {"password", "publickey"})
    => (authErr = "nil" /\ auth.authMethod = authWas.authMethod)

\* ------------------------------------------------------------------------
\* Part II.d  The retries of keepAlive
\* ------------------------------------------------------------------------

\* keepAlive goroutine l has made its ticker
Ticking(l) == loops[l].pc \notin {"none", "start"}

\* C31 as stated: the wait of the ticker of keepAlive is at every moment
\* max(base + increment * retries, floor) for its current retries, which is 0
\* after a cycle that ends connected.
C31_Stated ==
  \A l \in Loops :
    Ticking(l) => loops[l].iv = Schedule(KeepAlive, loops[l].retries)

\* The ticker of keepAlive always waits interval(retries) for the current
\* retries, which is the value of C31 whenever that value fits a Duration.
TickerFollowsInterval ==
  \A l \in Loops :
    Ticking(l) =>
      /\ loops[l].iv = interval(KeepAlive, loops[l].retries)
      /\ Fits(KeepAlive, loops[l].retries) =>
           loops[l].iv = Schedule(KeepAlive, loops[l].retries)

\* A cycle of keepAlive that ends with a client sets retries to 0, and one
\* that ends without adds one to it; nothing else changes retries.
RetriesFollowCycles ==
  [][\A l \in Loops :
       /\ (loops[l].pc = "post" /\ loops'[l].pc # "post") =>
            loops'[l].retries =
              IF client = 0 THEN loops[l].retries + 1 ELSE 0
       /\ (Ticking(l) /\ loops[l].pc # "post") =>
            loops'[l].retries = loops[l].retries]_vars

\* C34 as stated: a Client() that has been called eventually returns, also
\* when it dials while a keepAlive goroutine runs; this is so even in the
\* executions in which no Close() is ever called.
C34_Stated ==
  \A t \in KAThreads :
    (top[t] = "Client" /\ tpc[t] = "lock")
      ~> (tpc[t] = "returned" \/ \E u \in KAThreads : top[u] = "Close")

\* what releases keepAlive from reconnecting by itself: a thread is inside
\* Client() or Close(), Close() has been called, the host has refused a
\* redial, or the server accepts no further connection
Excused ==
  \/ \E t \in KAThreads : tpc[t] \notin {"idle", "returned"}
  \/ \E t \in KAThreads : top[t] = "Close"
  \/ closed
  \/ \E l \in Loops : loops[l].failed
  \/ ~CanDial

C33_Stated ==
  /\ Cardinality({m \in Managers : mgr[m].made}) <= 1
  /\ Cardinality({m \in Managers : mgr[m].conn # "none"}) <= 1
  /\ Cardinality({m \in Managers : mgr[m].loop # "none"}) <= 1
  /\ eclose = "done" =>
       \A m \in Managers : mgr[m].conn # "open" /\ mgr[m].loop # "running"

\* Close() has returned and a manager that e.ka no longer named has an open
\* connection and a running keepAlive goroutine
LeakedManager ==
  /\ eclose = "done"
  /\ \E m \in Managers : mgr[m].conn = "open" /\ mgr[m].loop = "running"

====
